---- MODULE Spec2Model ----
(***************************************************************************)
(* A model of the Dhall type checker of dhall/src/typecheck.rs.            *)
(*                                                                         *)
(* The checker is a pure function (context, term) -> Result<type, error>.  *)
(* Terms are records with a "tag" field, one tag per node kind of Expr_.   *)
(* The term model, shift, subst, normalize and Context live in the crate   *)
(* dhall_core, which typecheck.rs imports; they are modelled from the      *)
(* design document (sections 3, 4.1, 4.2, 4.4).  Everything from axiom to  *)
(* type_of is translated from typecheck.rs.                                *)
(*                                                                         *)
(* A Rust panic (unwrap on None, panic!, arithmetic overflow in a build    *)
(* with overflow checks) is the result Panic.  usize arithmetic in a build *)
(* without overflow checks wraps modulo 2^64; the model keeps the value    *)
(* m - 2^64 (a negative integer) for a wrapped m, which keeps equality,    *)
(* "- 1" and the test "= 0" exactly as they are modulo 2^64 for the small  *)
(* magnitudes that occur.                                                  *)
(*                                                                         *)
(* Three specifications: Spec calls type_of, type_with and rule; EqSpec    *)
(* calls prop_equal on a pair of normal forms; DeSpec builds a serde_dhall *)
(* Deserializer (serde_dhall/src/options/de.rs) by its builder methods.    *)
(***************************************************************************)
EXTENDS Integers, Sequences, FiniteSets, TLC

VARIABLES
    expr,             \* the term handed to the checker
    gamma,            \* the context handed to type_with
    overflow_checks,  \* build profile: TRUE = overflow panics, FALSE = wraps
    sorts,            \* the pair of sorts handed to rule, <<>> otherwise
    pc,               \* "input" before the call, "done" after it
    entry,            \* the entry point that ran: "none", "type_of", "type_with",
                      \* "rule", "prop_equal"
    result,           \* the Result the entry point returned
    de,               \* the serde_dhall Deserializer being built
    calls,            \* the builder calls made on it, in order
    pair              \* the two terms handed to prop_equal, <<>> otherwise

vars == <<expr, gamma, overflow_checks, sorts, pc, entry, result, de, calls, pair>>

(***************************************************************************)
(* Term model (dhall_core::core::Expr_).                                   *)
(***************************************************************************)
None == <<>>
Some(v) == <<v>>

Const(c) == [tag |-> "Const", c |-> c]
V(x, n) == [x |-> x, n |-> n]
Var(v) == [tag |-> "Var", x |-> v.x, n |-> v.n]
Lam(x, tA, b) == [tag |-> "Lam", x |-> x, tA |-> tA, b |-> b]
Pi(x, tA, tB) == [tag |-> "Pi", x |-> x, tA |-> tA, tB |-> tB]
App(f, a) == [tag |-> "App", f |-> f, a |-> a]
Let(f, mt, r, b) == [tag |-> "Let", x |-> f, mt |-> mt, r |-> r, b |-> b]
Annot(x, t) == [tag |-> "Annot", x |-> x, t |-> t]
Builtin(b) == [tag |-> "Builtin", b |-> b]
BoolLit(v) == [tag |-> "BoolLit", bool |-> v]
NaturalLit(v) == [tag |-> "NaturalLit", nat |-> v]
IntegerLit(v) == [tag |-> "IntegerLit", int |-> v]
DoubleLit(v) == [tag |-> "DoubleLit", double |-> v]
TextLit(v) == [tag |-> "TextLit", text |-> v]
BinOp(o, l, r) == [tag |-> "BinOp", o |-> o, l |-> l, r |-> r]
BoolIf(x, y, z) == [tag |-> "BoolIf", x |-> x, y |-> y, z |-> z]
ListLit(t, xs) == [tag |-> "ListLit", t |-> t, xs |-> xs]
OptionalLit(t, xs) == [tag |-> "OptionalLit", t |-> t, xs |-> xs]
\* Label maps (BTreeMap) are sequences of <<key, value>> sorted by key.
Record(kts) == [tag |-> "Record", kts |-> kts]
RecordLit(kvs) == [tag |-> "RecordLit", kvs |-> kvs]
Union(kts) == [tag |-> "Union", kts |-> kts]
UnionLit(k, v, kts) == [tag |-> "UnionLit", k |-> k, v |-> v, kts |-> kts]
Field(r, x) == [tag |-> "Field", r |-> r, x |-> x]
Note(s, x) == [tag |-> "Note", s |-> s, x |-> x]
Merge(h, u, t) == [tag |-> "Merge", h |-> h, u |-> u, t |-> t]

\* dhall_core::core::{pi, app}: a &str argument converts to Var(V(s, 0)).
var0(x) == Var(V(x, 0))
pi(x, tA, tB) == Pi(x, tA, tB)
app(f, a) == App(f, a)

\* The sequence s with f applied to the value of every <<key, value>> pair.
MapVals(s, f(_)) == [i \in 1..Len(s) |-> <<s[i][1], f(s[i][2])>>]
MapSeq(s, f(_)) == [i \in 1..Len(s) |-> f(s[i])]

\* The variable looked for below a binder of y.
Under(v, y) == IF y = v.x THEN V(v.x, v.n + 1) ELSE v

(***************************************************************************)
(* shift(d, v, e): every free V(x, k) of e with x = v.x and k >= v.n       *)
(* becomes V(x, k + d); under a binder of v.x the index v.n grows by one.  *)
(***************************************************************************)
RECURSIVE shift(_, _, _)
shift_seq(d, v, q) == [i \in 1..Len(q) |-> shift(d, v, q[i])]
shift_vals(d, v, q) == [i \in 1..Len(q) |-> <<q[i][1], shift(d, v, q[i][2])>>]
shift(d, v, e) ==
    CASE e.tag = "Var" ->
           IF e.x = v.x /\ e.n >= v.n THEN Var(V(e.x, e.n + d)) ELSE e
      [] e.tag = "Lam" ->
           Lam(e.x, shift(d, v, e.tA), shift(d, Under(v, e.x), e.b))
      [] e.tag = "Pi" ->
           Pi(e.x, shift(d, v, e.tA), shift(d, Under(v, e.x), e.tB))
      [] e.tag = "App" -> App(shift(d, v, e.f), shift(d, v, e.a))
      [] e.tag = "Let" ->
           Let(e.x, shift_seq(d, v, e.mt), shift(d, v, e.r),
               shift(d, Under(v, e.x), e.b))
      [] e.tag = "Annot" -> Annot(shift(d, v, e.x), shift(d, v, e.t))
      [] e.tag = "BinOp" -> BinOp(e.o, shift(d, v, e.l), shift(d, v, e.r))
      [] e.tag = "BoolIf" ->
           BoolIf(shift(d, v, e.x), shift(d, v, e.y), shift(d, v, e.z))
      [] e.tag = "ListLit" ->
           ListLit(shift_seq(d, v, e.t), shift_seq(d, v, e.xs))
      [] e.tag = "OptionalLit" ->
           OptionalLit(shift_seq(d, v, e.t), shift_seq(d, v, e.xs))
      [] e.tag = "Record" -> Record(shift_vals(d, v, e.kts))
      [] e.tag = "RecordLit" -> RecordLit(shift_vals(d, v, e.kvs))
      [] e.tag = "Union" -> Union(shift_vals(d, v, e.kts))
      [] e.tag = "UnionLit" ->
           UnionLit(e.k, shift(d, v, e.v), shift_vals(d, v, e.kts))
      [] e.tag = "Field" -> Field(shift(d, v, e.r), e.x)
      [] e.tag = "Note" -> Note(e.s, shift(d, v, e.x))
      [] e.tag = "Merge" ->
           Merge(shift(d, v, e.h), shift(d, v, e.u), shift_seq(d, v, e.t))
      [] OTHER -> e

(***************************************************************************)
(* subst(v, r, e): every free occurrence of V(v.x, v.n) in e becomes r.    *)
(* Entering a binder y shifts r by +1 on y (no free variable of r is       *)
(* captured) and, when y = v.x, looks for index v.n + 1 below it.          *)
(***************************************************************************)
RECURSIVE subst(_, _, _)
subst_seq(v, r, q) == [i \in 1..Len(q) |-> subst(v, r, q[i])]
subst_vals(v, r, q) == [i \in 1..Len(q) |-> <<q[i][1], subst(v, r, q[i][2])>>]
subst(v, r, e) ==
    CASE e.tag = "Var" -> IF e.x = v.x /\ e.n = v.n THEN r ELSE e
      [] e.tag = "Lam" ->
           Lam(e.x, subst(v, r, e.tA),
               subst(Under(v, e.x), shift(1, V(e.x, 0), r), e.b))
      [] e.tag = "Pi" ->
           Pi(e.x, subst(v, r, e.tA),
              subst(Under(v, e.x), shift(1, V(e.x, 0), r), e.tB))
      [] e.tag = "App" -> App(subst(v, r, e.f), subst(v, r, e.a))
      [] e.tag = "Let" ->
           Let(e.x, subst_seq(v, r, e.mt), subst(v, r, e.r),
               subst(Under(v, e.x), shift(1, V(e.x, 0), r), e.b))
      [] e.tag = "Annot" -> Annot(subst(v, r, e.x), subst(v, r, e.t))
      [] e.tag = "BinOp" -> BinOp(e.o, subst(v, r, e.l), subst(v, r, e.r))
      [] e.tag = "BoolIf" ->
           BoolIf(subst(v, r, e.x), subst(v, r, e.y), subst(v, r, e.z))
      [] e.tag = "ListLit" ->
           ListLit(subst_seq(v, r, e.t), subst_seq(v, r, e.xs))
      [] e.tag = "OptionalLit" ->
           OptionalLit(subst_seq(v, r, e.t), subst_seq(v, r, e.xs))
      [] e.tag = "Record" -> Record(subst_vals(v, r, e.kts))
      [] e.tag = "RecordLit" -> RecordLit(subst_vals(v, r, e.kvs))
      [] e.tag = "Union" -> Union(subst_vals(v, r, e.kts))
      [] e.tag = "UnionLit" ->
           UnionLit(e.k, subst(v, r, e.v), subst_vals(v, r, e.kts))
      [] e.tag = "Field" -> Field(subst(v, r, e.r), e.x)
      [] e.tag = "Note" -> Note(e.s, subst(v, r, e.x))
      [] e.tag = "Merge" ->
           Merge(subst(v, r, e.h), subst(v, r, e.u), subst_seq(v, r, e.t))
      [] OTHER -> e

\* The value stored under key k in a label map, as an Option.
MapGet(s, k) ==
    IF \E i \in 1..Len(s) : s[i][1] = k
    THEN Some(s[CHOOSE i \in 1..Len(s) : s[i][1] = k][2])
    ELSE None

\* The body b of a binder of x with a in the place of x.
Contract(x, a, b) ==
    shift(-1, V(x, 0), subst(V(x, 0), shift(1, V(x, 0), a), b))

(***************************************************************************)
(* normalize(e): the beta-normal form.  App of a Lam contracts with        *)
(* shift(-1, v, subst(v, shift(1, v, a), b)); Let contracts the same way;  *)
(* Annot and Note are dropped; a Field of a record literal projects; an    *)
(* if on a literal predicate picks its branch.                             *)
(***************************************************************************)
RECURSIVE normalize(_)
normalize_seq(q) == [i \in 1..Len(q) |-> normalize(q[i])]
normalize_vals(q) == [i \in 1..Len(q) |-> <<q[i][1], normalize(q[i][2])>>]
normalize_App(f2, a) ==
    IF f2.tag = "Lam"
    THEN normalize(Contract(f2.x, a, f2.b))
    ELSE App(f2, normalize(a))
normalize_BoolIf(p, y, z) ==
    IF p.tag = "BoolLit"
    THEN (IF p.bool THEN normalize(y) ELSE normalize(z))
    ELSE BoolIf(p, normalize(y), normalize(z))
normalize_Field(r2, x) ==
    IF r2.tag = "RecordLit" /\ MapGet(r2.kvs, x) # None
    THEN MapGet(r2.kvs, x)[1]
    ELSE Field(r2, x)
normalize(e) ==
    CASE e.tag = "Lam" -> Lam(e.x, normalize(e.tA), normalize(e.b))
      [] e.tag = "Pi" -> Pi(e.x, normalize(e.tA), normalize(e.tB))
      [] e.tag = "App" -> normalize_App(normalize(e.f), e.a)
      [] e.tag = "Let" -> normalize(Contract(e.x, e.r, e.b))
      [] e.tag = "Annot" -> normalize(e.x)
      [] e.tag = "Note" -> normalize(e.x)
      [] e.tag = "BinOp" -> BinOp(e.o, normalize(e.l), normalize(e.r))
      [] e.tag = "BoolIf" -> normalize_BoolIf(normalize(e.x), e.y, e.z)
      [] e.tag = "ListLit" -> ListLit(normalize_seq(e.t), normalize_seq(e.xs))
      [] e.tag = "OptionalLit" ->
           OptionalLit(normalize_seq(e.t), normalize_seq(e.xs))
      [] e.tag = "Record" -> Record(normalize_vals(e.kts))
      [] e.tag = "RecordLit" -> RecordLit(normalize_vals(e.kvs))
      [] e.tag = "Union" -> Union(normalize_vals(e.kts))
      [] e.tag = "UnionLit" ->
           UnionLit(e.k, normalize(e.v), normalize_vals(e.kts))
      [] e.tag = "Field" -> normalize_Field(normalize(e.r), e.x)
      [] e.tag = "Merge" ->
           Merge(normalize(e.h), normalize(e.u), normalize_seq(e.t))
      [] OTHER -> e

(***************************************************************************)
(* Context (dhall_core::context::Context): a map from a label to the stack *)
(* of types bound to it, the most recent binding last.                     *)
(***************************************************************************)
Context_new == <<>>

\* insert pushes v on k's stack; the caller shifts (see type_with, Lam).
Context_insert(c, k, v) ==
    [l \in (DOMAIN c) \cup {k} |->
        IF l = k
        THEN (IF k \in DOMAIN c THEN Append(c[k], v) ELSE <<v>>)
        ELSE c[l]]

\* lookup(x, n): the n-th entry of x's stack, nearest (most recent) first.
Context_lookup(c, k, n) ==
    IF k \in DOMAIN c /\ n >= 0 /\ n < Len(c[k])
    THEN Some(c[k][Len(c[k]) - n])
    ELSE None

\* map(|e| shift(d, v, e)): the closure applied to every stored type.
Context_map_shift(c, d, v) ==
    [l \in DOMAIN c |-> [i \in 1..Len(c[l]) |-> shift(d, v, c[l][i])]]

(***************************************************************************)
(* Results.  Ok(t) and Err(TypeError) are the two values of Result; Panic  *)
(* stands for a call that unwinds instead of returning.                    *)
(***************************************************************************)
Ok(v) == [tag |-> "Ok", val |-> v]
Err(err) == [tag |-> "Err", err |-> err]
Panic == [tag |-> "Panic"]

\* A TypeMessage: its variant and the variant's payload.
Msg(kind, args) == [kind |-> kind, args |-> args]

TypeError_new(context, current, type_message) ==
    [context |-> context, current |-> current, type_message |-> type_message]

\* Kind given a type.
axiom_KindTyped(c) == Ok("Kind")

axiom(c) ==
    IF c = "Type"
    THEN Ok("Kind")
    ELSE Err(TypeError_new(Context_new, Const("Kind"), Msg("Untyped", <<>>)))

\* A rule table that puts a function from types to terms in Kind.
rule_KindToType(a, b) ==
    CASE a = "Type" /\ b = "Kind" -> [tag |-> "Err"]
      [] a = "Kind" -> Ok("Kind")
      [] OTHER -> Ok("Type")

\* A rule table that lets a type depend on a term.
rule_Dependent(a, b) ==
    CASE a = "Kind" /\ b = "Kind" -> Ok("Kind")
      [] a = "Type" /\ b = "Kind" -> Ok("Kind")
      [] OTHER -> Ok("Type")

\* Ok(sort) or Err(()): the unit error is the record with tag "Err" alone.
rule(a, b) ==
    CASE a = "Type" /\ b = "Kind" -> [tag |-> "Err"]
      [] a = "Kind" /\ b = "Kind" -> Ok("Kind")
      [] OTHER -> Ok("Type")

(***************************************************************************)
(* usize subtraction n - 1: overflows at n = 0, where a build with         *)
(* overflow checks panics and one without wraps to 2^64 - 1 (kept as -1).  *)
(***************************************************************************)
Overflows(n) == n = 0

\* match_vars returns "true", "false", or "panic" when n - 1 overflows in a
\* build with overflow checks.  ctx is the slice; its first pair is the one
\* pushed first, the outermost binder.
RECURSIVE match_vars(_, _, _)
match_vars(vl, vr, ctx) ==
    IF ctx = <<>>
    THEN (IF vl.x = vr.x /\ vl.n = vr.n THEN "true" ELSE "false")
    ELSE LET xL2 == Head(ctx)[1]
             xR2 == Head(ctx)[2]
             xs == Tail(ctx)
         IN  IF vl.n = 0 /\ vr.n = 0 /\ vl.x = xL2 /\ vr.x = xR2
             THEN "true"
             ELSE IF overflow_checks
                     /\ \/ (vl.x = xL2 /\ Overflows(vl.n))
                        \/ (vr.x = xR2 /\ Overflows(vr.n))
                  THEN "panic"
                  ELSE LET nL2 == IF vl.x = xL2 THEN vl.n - 1 ELSE vl.n
                           nR2 == IF vr.x = xR2 THEN vr.n - 1 ELSE vr.n
                       IN  match_vars(V(vl.x, nL2), V(vr.x, nR2), xs)

\* prop_equal's inner go; ctx is the Vec of renaming pairs, pushed at its end
\* on entering a Pi and popped on leaving it.
RECURSIVE go(_, _, _)
RECURSIVE go_kts(_, _, _, _)
go_kts(ctx, ktsL, ktsR, i) ==
    IF i > Len(ktsL) \/ i > Len(ktsR)
    THEN "true"
    ELSE IF ktsL[i][1] # ktsR[i][1]
         THEN "false"
         ELSE LET b == go(ctx, ktsL[i][2], ktsR[i][2])
              IN  IF b = "true" THEN go_kts(ctx, ktsL, ktsR, i + 1) ELSE b

go(ctx, el, er) ==
    CASE el.tag = "Const" /\ er.tag = "Const" ->
           IF el.c = er.c THEN "true" ELSE "false"
      [] el.tag = "Var" /\ er.tag = "Var" ->
           match_vars(V(el.x, el.n), V(er.x, er.n), ctx)
      [] el.tag = "Pi" /\ er.tag = "Pi" ->
           LET eq1 == go(ctx, el.tA, er.tA)
           IN  IF eq1 = "true"
               THEN go(Append(ctx, <<el.x, er.x>>), el.tB, er.tB)
               ELSE eq1
      [] el.tag = "App" /\ er.tag = "App" ->
           LET eq1 == go(ctx, el.f, er.f)
           IN  IF eq1 = "true" THEN go(ctx, el.a, er.a) ELSE eq1
      [] el.tag = "Builtin" /\ er.tag = "Builtin" ->
           IF el.b = er.b THEN "true" ELSE "false"
      [] el.tag = "Record" /\ er.tag = "Record" ->
           IF Len(el.kts) # Len(er.kts)
           THEN "false"
           ELSE go_kts(ctx, el.kts, er.kts, 1)
      [] el.tag = "Union" /\ er.tag = "Union" ->
           IF Len(el.kts) # Len(er.kts)
           THEN "false"
           ELSE go_kts(ctx, el.kts, er.kts, 1)
      [] OTHER -> "false"

prop_equal(eL0, eR0) == go(<<>>, normalize(eL0), normalize(eR0))

(***************************************************************************)
(* type_with, one operator per match arm.  "r.tag # Ok => r" is the ?      *)
(* operator: an Err (or a panic) of a sub-judgement is the result.         *)
(***************************************************************************)
RECURSIVE type_with(_, _)

IsConst(t) == t.tag = "Const"

\* r?: the value of an Ok, or the error (or the abort) handed to the caller.
Try(r, k(_)) == IF r.tag = "Ok" THEN k(r.val) ELSE r

\* let v = ...; the rest reads v.
With(v, k(_)) == k(v)

op2_type(ctx, e, t, ef, l, r) ==
    Try(type_with(ctx, l), LAMBDA tl0 :
    With(normalize(tl0), LAMBDA tl :
    IF ~(tl.tag = "Builtin" /\ tl.b = t)
    THEN Err(TypeError_new(ctx, e, Msg(ef, <<l, tl>>)))
    ELSE
    Try(type_with(ctx, r), LAMBDA tr0 :
    With(normalize(tr0), LAMBDA tr :
    IF ~(tr.tag = "Builtin" /\ tr.b = t)
    THEN Err(TypeError_new(ctx, e, Msg(ef, <<r, tr>>)))
    ELSE Ok(Builtin(t))))))

type_with_Const(ctx, e) == Try(axiom(e.c), LAMBDA c : Ok(Const(c)))

\* A lookup that forgets the index: always the nearest binding.
type_with_Var_Nearest(ctx, e) ==
    With(Context_lookup(ctx, e.x, 0), LAMBDA t :
    IF t # None
    THEN Ok(t[1])
    ELSE Err(TypeError_new(ctx, e, Msg("UnboundVariable", <<>>))))

type_with_Var(ctx, e) ==
    With(Context_lookup(ctx, e.x, e.n), LAMBDA t :
    IF t # None
    THEN Ok(t[1])
    ELSE Err(TypeError_new(ctx, e, Msg("UnboundVariable", <<>>))))

\* The binder pushed and nothing shifted.
Extend_NoShift(ctx, x, tA) == Context_insert(ctx, x, tA)

\* ctx.insert(x, tA).map(|e| shift(1, &V(x, 0), e))
Extend(ctx, x, tA) ==
    Context_map_shift(Context_insert(ctx, x, tA), 1, V(x, 0))

type_with_Lam(ctx, e) ==
    With(Extend(ctx, e.x, e.tA), LAMBDA ctx2 :
    Try(type_with(ctx2, e.b), LAMBDA tB :
    With(Pi(e.x, e.tA, tB), LAMBDA p :
    Try(type_with(ctx, p), LAMBDA tp : Ok(p)))))

type_with_Pi(ctx, e) ==
    Try(type_with(ctx, e.tA), LAMBDA tA0 :
    With(normalize(tA0), LAMBDA tA2 :
    IF ~IsConst(tA2)
    THEN Err(TypeError_new(ctx, e, Msg("InvalidInputType", <<e.tA>>)))
    ELSE
    With(Extend(ctx, e.x, e.tA), LAMBDA ctx2 :
    Try(type_with(ctx2, e.tB), LAMBDA tB0 :
    With(normalize(tB0), LAMBDA tB :
    IF ~IsConst(tB)
    THEN Err(TypeError_new(ctx2, e, Msg("InvalidOutputType", <<tB>>)))
    ELSE
    With(rule(tA2.c, tB.c), LAMBDA k :
    IF k.tag # "Ok"
    THEN Err(TypeError_new(ctx, e, Msg("NoDependentTypes", <<e.tA, tB>>)))
    ELSE Ok(Const(k.val))))))))

\* The argument substituted without the shift that protects its variables.
type_with_App_Capture(ctx, e) ==
    Try(type_with(ctx, e.f), LAMBDA tf0 :
    With(normalize(tf0), LAMBDA tf :
    IF tf.tag # "Pi"
    THEN Err(TypeError_new(ctx, e, Msg("NotAFunction", <<e.f, tf>>)))
    ELSE
    Try(type_with(ctx, e.a), LAMBDA tA2 :
    With(prop_equal(tf.tA, tA2), LAMBDA eq :
    IF eq = "panic" THEN Panic
    ELSE IF eq = "true"
    THEN Ok(subst(V(tf.x, 0), e.a, tf.tB))
    ELSE Err(TypeError_new(ctx, e,
             Msg("TypeMismatch",
                 <<e.f, normalize(tf.tA), e.a, normalize(tA2)>>)))))))

type_with_App(ctx, e) ==
    Try(type_with(ctx, e.f), LAMBDA tf0 :
    With(normalize(tf0), LAMBDA tf :
    IF tf.tag # "Pi"
    THEN Err(TypeError_new(ctx, e, Msg("NotAFunction", <<e.f, tf>>)))
    ELSE
    Try(type_with(ctx, e.a), LAMBDA tA2 :
    With(prop_equal(tf.tA, tA2), LAMBDA eq :
    IF eq = "panic" THEN Panic
    ELSE IF eq = "true"
    THEN With(V(tf.x, 0), LAMBDA vx0 :
         With(shift(1, vx0, e.a), LAMBDA a2 :
         With(subst(vx0, a2, tf.tB), LAMBDA tB2 :
         Ok(shift(-1, vx0, tB2)))))
    ELSE Err(TypeError_new(ctx, e,
             Msg("TypeMismatch",
                 <<e.f, normalize(tf.tA), e.a, normalize(tA2)>>)))))))

\* The annotation of a let against the type of the bound term, then tB.
Let_annot(ctx, e, tR, tB) ==
    IF e.mt = None THEN Ok(tB)
    ELSE
    With(normalize(e.mt[1]), LAMBDA nf_t :
    With(normalize(tR), LAMBDA nf_tR :
    With(prop_equal(nf_tR, nf_t), LAMBDA eq :
    IF eq = "panic" THEN Panic
    ELSE IF eq = "false"
    THEN Err(TypeError_new(ctx, e, Msg("AnnotMismatch", <<e.r, nf_t, nf_tR>>)))
    ELSE Ok(tB))))

\* The body's type judged in the context that holds the let-bound name.
type_with_Let_Extended(ctx, e) ==
    Try(type_with(ctx, e.r), LAMBDA tR :
    Try(type_with(ctx, tR), LAMBDA ttR0 :
    With(normalize(ttR0), LAMBDA ttR :
    IF ~IsConst(ttR)
    THEN Err(TypeError_new(ctx, e, Msg("InvalidInputType", <<tR>>)))
    ELSE
    With(Context_insert(ctx, e.x, tR), LAMBDA ctx2 :
    Try(type_with(ctx2, e.b), LAMBDA tB :
    Try(type_with(ctx2, tB), LAMBDA ttB0 :
    With(normalize(ttB0), LAMBDA ttB :
    IF ~IsConst(ttB)
    THEN Err(TypeError_new(ctx, e, Msg("InvalidOutputType", <<tB>>)))
    ELSE IF rule(ttR.c, ttB.c).tag # "Ok"
    THEN Err(TypeError_new(ctx, e, Msg("NoDependentLet", <<tR, tB>>)))
    ELSE Let_annot(ctx, e, tR, tB))))))))

type_with_Let(ctx, e) ==
    Try(type_with(ctx, e.r), LAMBDA tR :
    Try(type_with(ctx, tR), LAMBDA ttR0 :
    With(normalize(ttR0), LAMBDA ttR :
    IF ~IsConst(ttR)
    THEN Err(TypeError_new(ctx, e, Msg("InvalidInputType", <<tR>>)))
    ELSE
    With(Context_insert(ctx, e.x, tR), LAMBDA ctx2 :
    Try(type_with(ctx2, e.b), LAMBDA tB :
    Try(type_with(ctx, tB), LAMBDA ttB0 :
    With(normalize(ttB0), LAMBDA ttB :
    IF ~IsConst(ttB)
    THEN Err(TypeError_new(ctx, e, Msg("InvalidOutputType", <<tB>>)))
    ELSE IF rule(ttR.c, ttB.c).tag # "Ok"
    THEN Err(TypeError_new(ctx, e, Msg("NoDependentLet", <<tR, tB>>)))
    ELSE Let_annot(ctx, e, tR, tB))))))))

\* The annotation compared with the term instead of the term's type.
type_with_Annot_Term(ctx, e) ==
    Try(type_with(ctx, e.t), LAMBDA tt :
    Try(type_with(ctx, e.x), LAMBDA t2 :
    With(prop_equal(e.t, e.x), LAMBDA eq :
    IF eq = "panic" THEN Panic
    ELSE IF eq = "true" THEN Ok(e.t)
    ELSE Err(TypeError_new(ctx, e,
             Msg("AnnotMismatch", <<e.x, normalize(e.t), normalize(t2)>>))))))

\* The annotation replaced by the inferred type.
type_with_Annot_Inferred(ctx, e) ==
    Try(type_with(ctx, e.t), LAMBDA tt :
    Try(type_with(ctx, e.x), LAMBDA t2 :
    With(prop_equal(e.t, t2), LAMBDA eq :
    IF eq = "panic" THEN Panic
    ELSE IF eq = "true" THEN Ok(t2)
    ELSE Err(TypeError_new(ctx, e,
             Msg("AnnotMismatch", <<e.x, normalize(e.t), normalize(t2)>>))))))

type_with_Annot(ctx, e) ==
    Try(type_with(ctx, e.t), LAMBDA tt :
    Try(type_with(ctx, e.x), LAMBDA t2 :
    With(prop_equal(e.t, t2), LAMBDA eq :
    IF eq = "panic" THEN Panic
    ELSE IF eq = "true" THEN Ok(e.t)
    ELSE Err(TypeError_new(ctx, e,
             Msg("AnnotMismatch", <<e.x, normalize(e.t), normalize(t2)>>))))))

\* One branch of an if: its normalized type, which must be a term's type.
BoolIf_branch(ctx, e, then, y, k(_)) ==
    Try(type_with(ctx, y), LAMBDA ty0 :
    With(normalize(ty0), LAMBDA ty :
    Try(type_with(ctx, ty), LAMBDA tty0 :
    With(normalize(tty0), LAMBDA tty :
    IF tty # Const("Type")
    THEN Err(TypeError_new(ctx, e,
             Msg("IfBranchMustBeTerm", <<then, y, ty, tty>>)))
    ELSE k(ty)))))

\* The else branch reported as the then branch.
type_with_BoolIf_Then(ctx, e) ==
    Try(type_with(ctx, e.x), LAMBDA tx0 :
    With(normalize(tx0), LAMBDA tx :
    IF tx # Builtin("Bool")
    THEN Err(TypeError_new(ctx, e, Msg("InvalidPredicate", <<e.x, tx>>)))
    ELSE
    BoolIf_branch(ctx, e, TRUE, e.y, LAMBDA ty :
    BoolIf_branch(ctx, e, TRUE, e.z, LAMBDA tz :
    With(prop_equal(ty, tz), LAMBDA eq :
    IF eq = "panic" THEN Panic
    ELSE IF eq = "false"
    THEN Err(TypeError_new(ctx, e,
             Msg("IfBranchMismatch", <<e.y, e.z, ty, tz>>)))
    ELSE Ok(ty))))))

type_with_BoolIf(ctx, e) ==
    Try(type_with(ctx, e.x), LAMBDA tx0 :
    With(normalize(tx0), LAMBDA tx :
    IF tx # Builtin("Bool")
    THEN Err(TypeError_new(ctx, e, Msg("InvalidPredicate", <<e.x, tx>>)))
    ELSE
    BoolIf_branch(ctx, e, TRUE, e.y, LAMBDA ty :
    BoolIf_branch(ctx, e, FALSE, e.z, LAMBDA tz :
    With(prop_equal(ty, tz), LAMBDA eq :
    IF eq = "panic" THEN Panic
    ELSE IF eq = "false"
    THEN Err(TypeError_new(ctx, e,
             Msg("IfBranchMismatch", <<e.y, e.z, ty, tz>>)))
    ELSE Ok(ty))))))

\* The fold with one of its variables misspelt.
ListChurch_Typo ==
    pi("list", Const("Type"),
       pi("cons", pi("_", var0("a"), pi("_", var0("list"), var0("list"))),
          pi("nil", var0("list"), var0("lst"))))

\* The Church-encoded fold shared by ListBuild and ListFold.
ListChurch ==
    pi("list", Const("Type"),
       pi("cons", pi("_", var0("a"), pi("_", var0("list"), var0("list"))),
          pi("nil", var0("list"), var0("list"))))

NaturalChurch ==
    pi("natural", Const("Type"),
       pi("succ", pi("_", var0("natural"), var0("natural")),
          pi("zero", var0("natural"), var0("natural"))))

\* The arms Builtin(b) => Ok(schema).
BuiltinSchema(b) ==
    CASE b = "NaturalFold" -> pi("_", Builtin("Natural"), NaturalChurch)
      [] b = "NaturalBuild" -> pi("_", NaturalChurch, Builtin("Natural"))
      [] b \in {"NaturalIsZero", "NaturalEven", "NaturalOdd"} ->
           Pi("_", Builtin("Natural"), Builtin("Bool"))
      [] b = "ListBuild" ->
           pi("a", Const("Type"),
              pi("_", ListChurch, app(Builtin("List"), var0("a"))))
      [] b = "ListFold" ->
           pi("a", Const("Type"),
              pi("_", app(Builtin("List"), var0("a")), ListChurch))
      [] b = "ListLength" ->
           pi("a", Const("Type"),
              pi("_", app(Builtin("List"), var0("a")), Builtin("Natural")))
      [] b \in {"ListHead", "ListLast"} ->
           pi("a", Const("Type"),
              pi("_", app(Builtin("List"), var0("a")),
                 app(Builtin("Optional"), var0("a"))))
      [] b = "ListIndexed" ->
           LET m == <<<<"index", Builtin("Natural")>>, <<"value", var0("a")>>>>
               innerinner == app(Builtin("List"), Record(m))
               innerinner2 == app(Builtin("List"), var0("a"))
               inner == Pi("_", innerinner2, innerinner)
           IN  Pi("a", Const("Type"), inner)
      [] b = "ListReverse" ->
           pi("a", Const("Type"),
              pi("_", app(Builtin("List"), var0("a")),
                 app(Builtin("List"), var0("a"))))
      [] b = "OptionalFold" ->
           pi("a", Const("Type"),
              pi("_", app(Builtin("Optional"), var0("a")),
                 pi("optional", Const("Type"),
                    pi("just", pi("_", var0("a"), var0("optional")),
                       pi("nothing", var0("optional"), var0("optional"))))))
      [] b \in {"List", "Optional"} -> pi("_", Const("Type"), Const("Type"))
      [] b \in {"Bool", "Natural", "Integer", "Double", "Text"} ->
           Const("Type")

\* The builtins type_with has an arm for.
Builtins ==
    {"Bool", "Natural", "Integer", "Double", "Text", "List", "Optional",
     "NaturalFold", "NaturalBuild", "NaturalIsZero", "NaturalEven",
     "NaturalOdd", "ListBuild", "ListFold", "ListLength", "ListHead",
     "ListLast", "ListIndexed", "ListReverse", "OptionalFold"}

type_with_Builtin(ctx, e) ==
    IF e.b \in Builtins THEN Ok(BuiltinSchema(e.b)) ELSE Panic

\* The element loop of ListLit: xs[i + 1] is the element of index i.
RECURSIVE ListElems(_, _, _, _)
ListElems(ctx, e, t, i) ==
    IF i >= Len(e.xs) THEN Ok(App(Builtin("List"), t))
    ELSE
    Try(type_with(ctx, e.xs[i + 1]), LAMBDA t2 :
    With(prop_equal(t, t2), LAMBDA eq :
    IF eq = "panic" THEN Panic
    ELSE IF eq = "false"
    THEN Err(TypeError_new(ctx, e,
             Msg("InvalidListElement",
                 <<i, normalize(t), e.xs[i + 1], normalize(t2)>>)))
    ELSE ListElems(ctx, e, t, i + 1)))

\* The first element never compared, annotation or not.
type_with_ListLit_SkipFirst(ctx, e) ==
    IF e.t = None /\ e.xs = <<>> THEN Panic
    ELSE
    Try(IF e.t # None THEN Ok(e.t[1]) ELSE type_with(ctx, e.xs[1]), LAMBDA t :
    Try(type_with(ctx, t), LAMBDA s :
    IF normalize(s) # Const("Type")
    THEN Err(TypeError_new(ctx, e, Msg("InvalidListType", <<t>>)))
    ELSE ListElems(ctx, e, t, 1)))

type_with_ListLit(ctx, e) ==
    IF e.t = None /\ e.xs = <<>> THEN Panic
    ELSE
    Try(IF e.t # None THEN Ok(e.t[1]) ELSE type_with(ctx, e.xs[1]), LAMBDA t :
    Try(type_with(ctx, t), LAMBDA s :
    IF normalize(s) # Const("Type")
    THEN Err(TypeError_new(ctx, e, Msg("InvalidListType", <<t>>)))
    ELSE ListElems(ctx, e, t, IF e.t # None THEN 0 ELSE 1)))

RECURSIVE OptionalElems(_, _, _, _)
OptionalElems(ctx, e, t, i) ==
    IF i >= Len(e.xs) THEN Ok(App(Builtin("Optional"), t))
    ELSE
    Try(type_with(ctx, e.xs[i + 1]), LAMBDA t2 :
    With(prop_equal(t, t2), LAMBDA eq :
    IF eq = "panic" THEN Panic
    ELSE IF eq = "false"
    THEN Err(TypeError_new(ctx, e,
             Msg("InvalidOptionalElement",
                 <<normalize(t), e.xs[i + 1], normalize(t2)>>)))
    ELSE OptionalElems(ctx, e, t, i + 1)))

\* Two elements let through.
type_with_OptionalLit_Three(ctx, e) ==
    IF e.t = None /\ e.xs = <<>> THEN Panic
    ELSE
    Try(IF e.t # None THEN Ok(e.t[1]) ELSE type_with(ctx, e.xs[1]), LAMBDA t :
    Try(type_with(ctx, t), LAMBDA s :
    IF normalize(s) # Const("Type")
    THEN Err(TypeError_new(ctx, e, Msg("InvalidOptionalType", <<t>>)))
    ELSE IF 3 <= Len(e.xs)
    THEN Err(TypeError_new(ctx, e,
             Msg("InvalidOptionalLiteral", <<Len(e.xs)>>)))
    ELSE OptionalElems(ctx, e, t, IF e.t # None THEN 0 ELSE 1)))

type_with_OptionalLit(ctx, e) ==
    IF e.t = None /\ e.xs = <<>> THEN Panic
    ELSE
    Try(IF e.t # None THEN Ok(e.t[1]) ELSE type_with(ctx, e.xs[1]), LAMBDA t :
    Try(type_with(ctx, t), LAMBDA s :
    IF normalize(s) # Const("Type")
    THEN Err(TypeError_new(ctx, e, Msg("InvalidOptionalType", <<t>>)))
    ELSE IF 2 <= Len(e.xs)
    THEN Err(TypeError_new(ctx, e,
             Msg("InvalidOptionalLiteral", <<Len(e.xs)>>)))
    ELSE OptionalElems(ctx, e, t, IF e.t # None THEN 0 ELSE 1)))

RECURSIVE RecordFields(_, _, _)
RecordFields(ctx, e, i) ==
    IF i > Len(e.kts) THEN Ok(Const("Type"))
    ELSE
    Try(type_with(ctx, e.kts[i][2]), LAMBDA s :
    IF normalize(s) # Const("Type")
    THEN Err(TypeError_new(ctx, e,
             Msg("InvalidFieldType", <<e.kts[i][1], e.kts[i][2]>>)))
    ELSE RecordFields(ctx, e, i + 1))

type_with_Record(ctx, e) == RecordFields(ctx, e, 1)

\* The map over kvs collected into a Result: kts holds the pairs so far.
RECURSIVE RecordLitFields(_, _, _, _)
RecordLitFields(ctx, e, i, kts) ==
    IF i > Len(e.kvs) THEN Ok(Record(kts))
    ELSE
    Try(type_with(ctx, e.kvs[i][2]), LAMBDA t :
    Try(type_with(ctx, t), LAMBDA s :
    IF normalize(s) # Const("Type")
    THEN Err(TypeError_new(ctx, e,
             Msg("InvalidField", <<e.kvs[i][1], e.kvs[i][2]>>)))
    ELSE RecordLitFields(ctx, e, i + 1, Append(kts, <<e.kvs[i][1], t>>))))

\* The record type normalized.
type_with_RecordLit_Normal(ctx, e) ==
    Try(RecordLitFields(ctx, e, 1, <<>>), LAMBDA t : Ok(normalize(t)))

type_with_RecordLit(ctx, e) == RecordLitFields(ctx, e, 1, <<>>)

\* A missing field reported as a non-record.
type_with_Field_NotARecord(ctx, e) ==
    Try(type_with(ctx, e.r), LAMBDA t0 :
    With(normalize(t0), LAMBDA t :
    IF t.tag = "Record" /\ MapGet(t.kts, e.x) # None
    THEN Ok(MapGet(t.kts, e.x)[1])
    ELSE Err(TypeError_new(ctx, e, Msg("NotARecord", <<e.x, e.r, t>>)))))

type_with_Field(ctx, e) ==
    Try(type_with(ctx, e.r), LAMBDA t0 :
    With(normalize(t0), LAMBDA t :
    IF t.tag = "Record"
    THEN With(MapGet(t.kts, e.x), LAMBDA found :
         IF found # None
         THEN Ok(found[1])
         ELSE Err(TypeError_new(ctx, e, Msg("MissingField", <<e.x, t>>))))
    ELSE Err(TypeError_new(ctx, e, Msg("NotARecord", <<e.x, e.r, t>>)))))

\* The operators with an arm, their operand type and their error variant.
BinOpType(o) ==
    CASE o \in {"BoolAnd", "BoolOr", "BoolEQ", "BoolNE"} -> "Bool"
      [] o \in {"NaturalPlus", "NaturalTimes"} -> "Natural"
      [] o = "TextAppend" -> "Text"

\* CantAnd and CantOr exchanged.
BinOpError_Swapped(o) ==
    CASE o = "BoolAnd" -> "CantOr"
      [] o = "BoolOr" -> "CantAnd"
      [] o = "BoolEQ" -> "CantEQ"
      [] o = "BoolNE" -> "CantNE"
      [] o = "NaturalPlus" -> "CantAdd"
      [] o = "NaturalTimes" -> "CantMultiply"
      [] o = "TextAppend" -> "CantTextAppend"

BinOpError(o) ==
    CASE o = "BoolAnd" -> "CantAnd"
      [] o = "BoolOr" -> "CantOr"
      [] o = "BoolEQ" -> "CantEQ"
      [] o = "BoolNE" -> "CantNE"
      [] o = "NaturalPlus" -> "CantAdd"
      [] o = "NaturalTimes" -> "CantMultiply"
      [] o = "TextAppend" -> "CantTextAppend"

BinOps ==
    {"BoolAnd", "BoolOr", "BoolEQ", "BoolNE", "NaturalPlus", "NaturalTimes",
     "TextAppend"}

type_with_BinOp(ctx, e) ==
    IF e.o \in BinOps
    THEN op2_type(ctx, e, BinOpType(e.o), BinOpError(e.o), e.l, e.r)
    ELSE Panic

type_with(ctx, e) ==
    CASE e.tag = "Const" -> type_with_Const(ctx, e)
      [] e.tag = "Var" -> type_with_Var(ctx, e)
      [] e.tag = "Lam" -> type_with_Lam(ctx, e)
      [] e.tag = "Pi" -> type_with_Pi(ctx, e)
      [] e.tag = "App" -> type_with_App(ctx, e)
      [] e.tag = "Let" -> type_with_Let(ctx, e)
      [] e.tag = "Annot" -> type_with_Annot(ctx, e)
      [] e.tag = "BoolLit" -> Ok(Builtin("Bool"))
      [] e.tag = "BinOp" -> type_with_BinOp(ctx, e)
      [] e.tag = "BoolIf" -> type_with_BoolIf(ctx, e)
      [] e.tag = "NaturalLit" -> Ok(Builtin("Natural"))
      [] e.tag = "Builtin" -> type_with_Builtin(ctx, e)
      [] e.tag = "IntegerLit" -> Ok(Builtin("Integer"))
      [] e.tag = "DoubleLit" -> Ok(Builtin("Double"))
      [] e.tag = "TextLit" -> Ok(Builtin("Text"))
      [] e.tag = "ListLit" -> type_with_ListLit(ctx, e)
      [] e.tag = "OptionalLit" -> type_with_OptionalLit(ctx, e)
      [] e.tag = "Record" -> type_with_Record(ctx, e)
      [] e.tag = "RecordLit" -> type_with_RecordLit(ctx, e)
      [] e.tag = "Field" -> type_with_Field(ctx, e)
      \* Union, UnionLit, Merge, Note, BinOp(Combine): the arm _ => panic!
      [] OTHER -> Panic

type_of(e) == type_with(Context_new, e)

(***************************************************************************)
(* The inputs.  Terms are what the parser can hand over: any tree.  The    *)
(* bounded families below are closed under nothing; they are chosen so     *)
(* that every arm of type_with is entered, succeeds and fails.             *)
(***************************************************************************)
MaxIndex == 1
MaxLit == 1

Labels == {"x", "a"}
Vars == {Var(V(l, n)) : l \in Labels, n \in 0..MaxIndex}
Lits == {NaturalLit(n) : n \in 1..MaxLit} \cup {BoolLit(TRUE)}

Atoms ==
    {Const("Type"), Const("Kind"), Builtin("Natural"), Builtin("Bool"),
     Builtin("List")} \cup Vars \cup Lits

\* Binder annotations and arguments used around a deeper sub-term.
SmallTypes == {Const("Type"), Builtin("Natural"), var0("a")}
SmallTerms == {Builtin("Natural"), NaturalLit(1), BoolLit(TRUE), var0("x")}
LetAnnots == {None, Some(Builtin("Natural")), Some(Const("Type"))}

\* One node over atoms.
Depth1 ==
    {Lam(l, tA, b) : l \in Labels, tA \in Atoms, b \in Atoms}
    \cup {Pi(l, tA, tB) : l \in Labels, tA \in Atoms, tB \in Atoms}
    \cup {App(f, a) : f \in Atoms, a \in Atoms}
    \cup {Annot(x, t) : x \in Atoms, t \in Atoms}
    \cup {Let(l, mt, r, b) : l \in Labels, mt \in LetAnnots,
                             r \in Atoms, b \in Atoms}

\* One node over a Depth1 sub-term.
Depth2Lam == {Lam(l, tA, b) : l \in Labels, tA \in SmallTypes, b \in Depth1}
Depth2Pi == {Pi(l, tA, tB) : l \in Labels, tA \in SmallTypes, tB \in Depth1}
Depth2App == {App(f, a) : f \in Depth1, a \in SmallTerms}
Depth2Annot == {Annot(x, t) : x \in Depth1, t \in SmallTypes}
Depth2Let ==
    {Let(l, None, r, b) : l \in Labels, r \in SmallTerms, b \in Depth1}

\* Terms with no arm (the arm _ => panic!) and literals of every shape.
Others ==
    {Union(<<>>), Union(<<<<"k", Builtin("Natural")>>>>),
     UnionLit("k", NaturalLit(1), <<>>),
     BinOp("Combine", RecordLit(<<>>), RecordLit(<<>>)),
     Merge(RecordLit(<<>>), var0("x"), None),
     Note("s", NaturalLit(1)),
     \* a let annotation is normalized, never judged
     Let("x", Some(App(Lam("x", var0("a"), Builtin("Natural")), NaturalLit(1))),
         NaturalLit(1), var0("x")),
     \* the same with Kind in the annotation
     Let("x", Some(App(Lam("x", Const("Kind"), Builtin("Natural")),
                       NaturalLit(1))),
         NaturalLit(1), var0("x")),
     IntegerLit(1), DoubleLit(1), TextLit("s")}
    \cup {Builtin(b) : b \in Builtins}
    \cup {BuiltinSchema(b) : b \in Builtins}
    \cup {ListLit(t, xs) : t \in {None, Some(Builtin("Natural"))},
                           xs \in {<<>>, <<NaturalLit(1)>>,
                                   <<NaturalLit(1), BoolLit(TRUE)>>,
                                   <<var0("x")>>}}
    \cup {OptionalLit(t, xs) : t \in {None, Some(Builtin("Natural"))},
                               xs \in {<<>>, <<NaturalLit(1)>>,
                                       <<NaturalLit(1), NaturalLit(1)>>}}
    \cup {BoolIf(x, y, z) : x \in {BoolLit(TRUE), NaturalLit(1)},
                            y \in {NaturalLit(1), Builtin("Natural")},
                            z \in {NaturalLit(1), BoolLit(TRUE)}}
    \cup {BinOp(o, l, r) : o \in BinOps, l \in Lits, r \in Lits}
    \cup {RecordLit(<<<<"x", v>>, <<"y", w>>>>) : v \in Lits, w \in Atoms}
    \cup {Record(<<<<"x", v>>>>) : v \in Atoms}
    \cup {Field(RecordLit(<<<<"x", v>>>>), k) : v \in Lits, k \in {"x", "y"}}

\* Types with two nested binders, and a function applied to an argument
\* whose type is one of them: prop_equal compares binder against binder.
PiLabels == {"x", "y"}
Pi2 ==
    {Pi(l1, Const("Type"), Pi(l2, Const("Type"), Var(V(l, n)))) :
        l1 \in PiLabels, l2 \in PiLabels, l \in PiLabels, n \in 0..MaxIndex}
HigherRank ==
    {Lam("g", Pi("_", p, Builtin("Natural")),
         Lam("h", q, App(var0("g"), var0("h")))) : p \in Pi2, q \in Pi2}

\* Three nested binders, the innermost re-binding the outermost name.
Shadowing ==
    {Lam(l1, Const("Type"), Lam(l2, var0(l1), Lam(l3, Const("Type"), b))) :
        l1 \in Labels, l2 \in Labels, l3 \in Labels, b \in Vars}

\* A type that is not in normal form: (\(x : Type) -> x) Natural.
NaturalRedex == App(Lam("x", Const("Type"), var0("x")), Builtin("Natural"))
OneAsRedex == Annot(NaturalLit(1), NaturalRedex)

\* Composite terms: their sub-terms ill-typed, of the wrong type, and of a
\* type that is not normal.
Composites ==
    {BinOp("Combine", RecordLit(<<<<"x", NaturalLit(1)>>>>),
                      RecordLit(<<<<"y", BoolLit(TRUE)>>>>)),
     BinOp("Combine", RecordLit(<<<<"x", NaturalLit(1)>>>>),
                      RecordLit(<<<<"x", BoolLit(TRUE)>>>>)),
     OneAsRedex, Annot(var0("x"), Const("Kind")),
     Annot(BoolLit(TRUE), NaturalRedex)}
    \cup {BoolIf(x, y, z) : x \in {BoolLit(TRUE), var0("x")},
                            y \in {OneAsRedex, Const("Type"), var0("x"),
                                   Builtin("Natural")},
                            z \in {NaturalLit(1), OneAsRedex, BoolLit(TRUE),
                                   Builtin("Natural")}}
    \cup {ListLit(t, xs) :
            t \in {None, Some(Builtin("Natural")), Some(NaturalRedex),
                   Some(NaturalLit(1))},
            xs \in {<<NaturalLit(1), NaturalLit(1), NaturalLit(1)>>,
                    <<NaturalLit(1), NaturalLit(1), BoolLit(TRUE)>>,
                    <<BoolLit(TRUE), NaturalLit(1)>>,
                    <<NaturalLit(1), var0("x"), BoolLit(TRUE)>>,
                    <<OneAsRedex, NaturalLit(1)>>}}
    \cup {OptionalLit(t, xs) :
            t \in {None, Some(Builtin("Natural")), Some(NaturalRedex),
                   Some(NaturalLit(1))},
            xs \in {<<>>, <<NaturalLit(1)>>, <<BoolLit(TRUE)>>,
                    <<var0("x")>>, <<NaturalLit(1), BoolLit(TRUE)>>,
                    <<var0("x"), NaturalLit(1)>>}}
    \cup {RecordLit(<<<<"x", v>>, <<"y", w>>>>) :
            v \in {OneAsRedex, Builtin("Natural"), var0("x")},
            w \in {BoolLit(TRUE), Builtin("Natural"), var0("x")}}
    \cup {Field(r, k) :
            r \in {RecordLit(<<<<"x", OneAsRedex>>>>),
                   Annot(RecordLit(<<<<"x", NaturalLit(1)>>>>),
                         App(Lam("x", Const("Type"), var0("x")),
                             Record(<<<<"x", Builtin("Natural")>>>>))),
                   NaturalLit(1), var0("x")},
            k \in {"x", "y"}}
    \cup {BinOp(o, l, r) :
            o \in BinOps,
            l \in {NaturalLit(1), BoolLit(TRUE), TextLit("s"), var0("x"),
                   OneAsRedex},
            r \in {NaturalLit(1), BoolLit(TRUE), TextLit("s"), var0("x"),
                   OneAsRedex}}

\* The sorts, and the pairs rule is asked about.
Sorts == {"Type", "Kind"}

\* Every small typed term annotated with the type inferred for it.
Annotated ==
    {Annot(t, type_of(t).val) : t \in {u \in Depth1 : type_of(u).tag = "Ok"}}
AnnotatedBuiltins == {Annot(Builtin(b), BuiltinSchema(b)) : b \in Builtins}

\* The families of terms handed to type_of.
Inputs ==
    <<Atoms, Depth1, Depth2Lam, Depth2Pi, Depth2App, Depth2Annot, Depth2Let,
      Others, HigherRank, Shadowing, Annotated, AnnotatedBuiltins,
      Composites>>

\* Contexts for type_with: stacks of one and two entries, and a type that
\* mentions another entry.
Contexts ==
    {Context_new,
     Context_insert(Context_new, "x", Builtin("Natural")),
     Context_insert(Context_insert(Context_new, "x", Builtin("Natural")),
                    "x", Builtin("Bool")),
     Context_insert(Context_insert(Context_new, "a", Const("Type")),
                    "x", var0("a")),
     \* x is a function whose result type binds the name of its argument
     Context_insert(Context_insert(Context_new, "a", Const("Type")),
                    "x", Pi("x", Const("Type"),
                            Pi("a", Const("Type"), var0("x")))),
     \* a is a function whose result type is the x of the context, as
     \* under \(x : Type) -> \(a : forall(x : Type) -> x@1)
     Context_insert(Context_insert(Context_new, "x", Const("Type")),
                    "a", Pi("x", Const("Type"), Var(V("x", 1))))}

NoResult == [tag |-> "None"]

(***************************************************************************)
(* The Deserializer builder of serde_dhall/src/options/de.rs.  A           *)
(* Deserializer is a record of its four fields; builtins, a HashMap, is a  *)
(* function from labels to expressions.  The annotation is a type          *)
(* parameter: type_annotation and static_type_annotation exist only on     *)
(* Deserializer<NoAnnot>.                                                  *)
(***************************************************************************)
NoDeserializer == [tag |-> "None"]

Source(kind, v) == [kind |-> kind, v |-> v]
NoAnnot == [annot |-> "NoAnnot"]
ManualAnnot(ty) == [annot |-> "ManualAnnot", ty |-> ty]
StaticAnnot == [annot |-> "StaticAnnot"]

\* dhall::syntax::Label::from_str and SimpleType::to_expr
Label_from_str(name) == [label |-> name]
to_expr(ty) == Builtin(ty)

EmptyMap == [l \in {} |-> NoResult]

\* HashMap::insert
HashMap_insert(m, k, v) ==
    [l \in DOMAIN m \cup {k} |-> IF l = k THEN v ELSE m[l]]

\* Extend::extend: the pairs inserted in order
RECURSIVE HashMap_extend(_, _)
HashMap_extend(m, kvs) ==
    IF kvs = <<>> THEN m
    ELSE HashMap_extend(HashMap_insert(m, kvs[1][1], kvs[1][2]), Tail(kvs))

default_with_source(source) ==
    [tag |-> "Deserializer", source |-> source, annot |-> NoAnnot,
     allow_imports |-> TRUE, builtins |-> EmptyMap]

\* An annotation setter that starts again from the defaults.
type_annotation_Default(self, ty) ==
    [default_with_source(self.source) EXCEPT !.annot = ManualAnnot(ty)]

type_annotation(self, ty) ==
    [tag |-> "Deserializer", annot |-> ManualAnnot(ty),
     source |-> self.source, allow_imports |-> self.allow_imports,
     builtins |-> self.builtins]

static_type_annotation(self) ==
    [tag |-> "Deserializer", annot |-> StaticAnnot,
     source |-> self.source, allow_imports |-> self.allow_imports,
     builtins |-> self.builtins]

imports(self, b) == [self EXCEPT !.allow_imports = b]

MapPairs(tys) ==
    [i \in DOMAIN tys |-> <<Label_from_str(tys[i][1]), to_expr(tys[i][2])>>]

with_builtin_types(self, tys) ==
    [self EXCEPT !.builtins = HashMap_extend(self.builtins, MapPairs(tys))]

with_builtin_type(self, name, ty) ==
    [self EXCEPT
        !.builtins = HashMap_insert(self.builtins, Label_from_str(name),
                                    to_expr(ty))]

\* The inputs of the builder.
MaxCalls == 3
Strs == {"1 + 1"}
Paths == {"a.dhall"}
SimpleTypes == {"Bool", "Natural"}
TypeNames == {"T", "U"}
TypeLists ==
    {<<>>, <<<<"T", "Bool">>>>, <<<<"T", "Bool">>, <<"T", "Natural">>>>,
     <<<<"U", "Natural">>, <<"T", "Bool">>>>}

Call(op, arg) == [op |-> op, arg |-> arg]

\* The arguments of one call: a term (and a context) for type_of and
\* type_with, or a pair of sorts for rule.
Init ==
    /\ \/ /\ \E i \in DOMAIN Inputs : expr \in Inputs[i]
          /\ gamma = Context_new
          /\ sorts = <<>>
       \/ /\ \E i \in {1, 2} : expr \in Inputs[i]
          /\ gamma \in Contexts
          /\ sorts = <<>>
       \/ /\ expr = Const("Type")
          /\ gamma = Context_new
          /\ sorts \in Sorts \X Sorts
    /\ overflow_checks \in BOOLEAN
    /\ pc = "input"
    /\ entry = "none"
    /\ result = NoResult
    /\ de = NoDeserializer
    /\ calls = <<>>
    /\ pair = <<>>

\* type_of(&expr)
TypeOf ==
    /\ pc = "input"
    /\ gamma = Context_new
    /\ sorts = <<>>
    /\ result' = type_of(expr)
    /\ entry' = "type_of"
    /\ pc' = "done"
    /\ UNCHANGED <<expr, gamma, overflow_checks, sorts, de, calls, pair>>

\* type_with(&gamma, &expr)
TypeWith ==
    /\ pc = "input"
    /\ sorts = <<>>
    /\ result' = type_with(gamma, expr)
    /\ entry' = "type_with"
    /\ pc' = "done"
    /\ UNCHANGED <<expr, gamma, overflow_checks, sorts, de, calls, pair>>

\* rule(a, b)
Rule ==
    /\ pc = "input"
    /\ Len(sorts) = 2
    /\ result' = rule(sorts[1], sorts[2])
    /\ entry' = "rule"
    /\ pc' = "done"
    /\ UNCHANGED <<expr, gamma, overflow_checks, sorts, de, calls, pair>>

Next == TypeOf \/ TypeWith \/ Rule

\* Normal forms handed to prop_equal: types with two binders over bound
\* and free variables, records and unions of them, applications.
EqTerms ==
    Pi2
    \cup {Pi(l1, Const("Type"), Var(V(l, 0))) : l1 \in PiLabels, l \in PiLabels}
    \cup {Record(<<<<k, t>>>>) :
            k \in {"x", "y"}, t \in {Builtin("Natural"), Builtin("Bool")}}
    \cup {Record(<<>>), Union(<<>>),
          Record(<<<<"x", Builtin("Natural")>>, <<"y", Builtin("Bool")>>>>),
          Union(<<<<"x", Builtin("Natural")>>>>),
          Union(<<<<"x", Builtin("Bool")>>>>),
          Union(<<<<"y", Builtin("Natural")>>>>),
          App(Builtin("List"), Builtin("Natural")),
          App(Builtin("List"), Builtin("Bool")),
          App(Builtin("Optional"), Builtin("Natural")),
          Const("Type"), Const("Kind"), Builtin("Natural"), var0("x"),
          Var(V("x", 1)), var0("y")}

\* A call of prop_equal on two terms, in either build profile.
EqInit ==
    /\ pair \in EqTerms \X EqTerms
    /\ overflow_checks \in BOOLEAN
    /\ expr = Const("Type")
    /\ gamma = Context_new
    /\ sorts = <<>>
    /\ pc = "input"
    /\ entry = "none"
    /\ result = NoResult
    /\ de = NoDeserializer
    /\ calls = <<>>

\* prop_equal(&eL0, &eR0): a bool, or a panic
PropEqual ==
    /\ pc = "input"
    /\ Len(pair) = 2
    /\ result' = [tag |-> "Bool", is |-> prop_equal(pair[1], pair[2])]
    /\ entry' = "prop_equal"
    /\ pc' = "done"
    /\ UNCHANGED <<expr, gamma, overflow_checks, sorts, de, calls, pair>>

EqNext == PropEqual

EqSpec == EqInit /\ [][EqNext]_vars

\* No Deserializer yet; the type checker is not running.
DeInit ==
    /\ expr = Const("Type")
    /\ gamma = Context_new
    /\ overflow_checks = FALSE
    /\ sorts = <<>>
    /\ pc = "builder"
    /\ entry = "none"
    /\ result = NoResult
    /\ de = NoDeserializer
    /\ calls = <<>>
    /\ pair = <<>>

Checker == <<expr, gamma, overflow_checks, sorts, pc, entry, result, pair>>

\* serde_dhall::from_str(s)
FromStr ==
    /\ pc = "builder" /\ de = NoDeserializer
    /\ \E s \in Strs :
          /\ de' = default_with_source(Source("Str", s))
          /\ calls' = <<Call("from_str", s)>>
    /\ UNCHANGED Checker

\* serde_dhall::from_file(path)
FromFile ==
    /\ pc = "builder" /\ de = NoDeserializer
    /\ \E p \in Paths :
          /\ de' = default_with_source(Source("File", p))
          /\ calls' = <<Call("from_file", p)>>
    /\ UNCHANGED Checker

\* serde_dhall::from_binary_file(path)
FromBinaryFile ==
    /\ pc = "builder" /\ de = NoDeserializer
    /\ \E p \in Paths :
          /\ de' = default_with_source(Source("BinaryFile", p))
          /\ calls' = <<Call("from_binary_file", p)>>
    /\ UNCHANGED Checker

\* A builder call can be made: there is a Deserializer.
CanCall == pc = "builder" /\ de # NoDeserializer /\ Len(calls) <= MaxCalls

\* .type_annotation(&ty), on Deserializer<NoAnnot> only
TypeAnnotation ==
    /\ CanCall /\ de.annot = NoAnnot
    /\ \E ty \in SimpleTypes :
          /\ de' = type_annotation(de, ty)
          /\ calls' = Append(calls, Call("type_annotation", ty))
    /\ UNCHANGED Checker

\* .static_type_annotation(), on Deserializer<NoAnnot> only
StaticTypeAnnotation ==
    /\ CanCall /\ de.annot = NoAnnot
    /\ de' = static_type_annotation(de)
    /\ calls' = Append(calls, Call("static_type_annotation", <<>>))
    /\ UNCHANGED Checker

\* .imports(b)
Imports ==
    /\ CanCall
    /\ \E b \in BOOLEAN :
          /\ de' = imports(de, b)
          /\ calls' = Append(calls, Call("imports", b))
    /\ UNCHANGED Checker

\* .with_builtin_types(tys)
WithBuiltinTypes ==
    /\ CanCall
    /\ \E tys \in TypeLists :
          /\ de' = with_builtin_types(de, tys)
          /\ calls' = Append(calls, Call("with_builtin_types", tys))
    /\ UNCHANGED Checker

\* .with_builtin_type(name, ty)
WithBuiltinType ==
    /\ CanCall
    /\ \E name \in TypeNames, ty \in SimpleTypes :
          /\ de' = with_builtin_type(de, name, ty)
          /\ calls' = Append(calls, Call("with_builtin_type", <<name, ty>>))
    /\ UNCHANGED Checker

DeNext ==
    \/ FromStr \/ FromFile \/ FromBinaryFile
    \/ TypeAnnotation \/ StaticTypeAnnotation \/ Imports
    \/ WithBuiltinTypes \/ WithBuiltinType

DeSpec == DeInit /\ [][DeNext]_vars

Spec == Init /\ [][Next]_vars

(***************************************************************************)
(* Notions the properties are stated with.                                 *)
(***************************************************************************)
\* Where V(x, n) points among the enclosing binders env (innermost last),
\* scanning from position k down: the position of its binder, or 0 with the
\* index left over when it is free.
RECURSIVE Resolve(_, _, _, _)
Resolve(env, x, n, k) ==
    IF k = 0 THEN [pos |-> 0, n |-> n]
    ELSE IF env[k] = x
         THEN (IF n = 0 THEN [pos |-> k, n |-> 0]
               ELSE Resolve(env, x, n - 1, k - 1))
         ELSE Resolve(env, x, n, k - 1)

IsFreeVar(env, x, n) == Resolve(env, x, n, Len(env)).pos = 0

\* A free variable occurs in e, outside let annotations when ~annots.
RECURSIVE HasFree(_, _, _)
HasFree(t, env, annots) ==
    LET hf(u) == HasFree(u, env, annots)
        hb(y, u) == HasFree(u, Append(env, y), annots)
        any(s) == \E i \in 1..Len(s) : hf(s[i])
        anyv(s) == \E i \in 1..Len(s) : hf(s[i][2])
    IN  CASE t.tag = "Var" -> IsFreeVar(env, t.x, t.n)
          [] t.tag = "Lam" -> hf(t.tA) \/ hb(t.x, t.b)
          [] t.tag = "Pi" -> hf(t.tA) \/ hb(t.x, t.tB)
          [] t.tag = "App" -> hf(t.f) \/ hf(t.a)
          [] t.tag = "Let" ->
               (annots /\ any(t.mt)) \/ hf(t.r) \/ hb(t.x, t.b)
          [] t.tag = "Annot" -> hf(t.x) \/ hf(t.t)
          [] t.tag = "BinOp" -> hf(t.l) \/ hf(t.r)
          [] t.tag = "BoolIf" -> hf(t.x) \/ hf(t.y) \/ hf(t.z)
          [] t.tag \in {"ListLit", "OptionalLit"} -> any(t.t) \/ any(t.xs)
          [] t.tag \in {"Record", "Union"} -> anyv(t.kts)
          [] t.tag = "RecordLit" -> anyv(t.kvs)
          [] t.tag = "UnionLit" -> hf(t.v) \/ anyv(t.kts)
          [] t.tag = "Field" -> hf(t.r)
          [] t.tag = "Note" -> hf(t.x)
          [] t.tag = "Merge" -> hf(t.h) \/ hf(t.u) \/ any(t.t)
          [] OTHER -> FALSE

Closed(t) == ~HasFree(t, <<>>, TRUE)

\* e with the binder at depth d renamed names[d], every bound variable
\* following its binder: a consistent renaming of bound variables.
RECURSIVE Rename(_, _, _)
Rename(t, env, names) ==
    LET d == Len(env)
        rn(u) == Rename(u, env, names)
        rb(y, u) == Rename(u, Append(env, y), names)
        new == names[d + 1]
        target(x, n) ==
            LET at == Resolve(env, x, n, d)
            IN  IF at.pos = 0
                THEN V(x, at.n + Cardinality({j \in 1..d : names[j] = x}))
                ELSE V(names[at.pos],
                       Cardinality({j \in (at.pos + 1)..d :
                                        names[j] = names[at.pos]}))
    IN  CASE t.tag = "Var" -> Var(target(t.x, t.n))
          [] t.tag = "Lam" -> Lam(new, rn(t.tA), rb(t.x, t.b))
          [] t.tag = "Pi" -> Pi(new, rn(t.tA), rb(t.x, t.tB))
          [] t.tag = "App" -> App(rn(t.f), rn(t.a))
          [] t.tag = "Let" ->
               Let(new, MapSeq(t.mt, rn), rn(t.r), rb(t.x, t.b))
          [] t.tag = "Annot" -> Annot(rn(t.x), rn(t.t))
          [] t.tag = "BinOp" -> BinOp(t.o, rn(t.l), rn(t.r))
          [] t.tag = "BoolIf" -> BoolIf(rn(t.x), rn(t.y), rn(t.z))
          [] t.tag = "ListLit" -> ListLit(MapSeq(t.t, rn), MapSeq(t.xs, rn))
          [] t.tag = "OptionalLit" ->
               OptionalLit(MapSeq(t.t, rn), MapSeq(t.xs, rn))
          [] t.tag = "Record" -> Record(MapVals(t.kts, rn))
          [] t.tag = "RecordLit" -> RecordLit(MapVals(t.kvs, rn))
          [] t.tag = "Union" -> Union(MapVals(t.kts, rn))
          [] t.tag = "UnionLit" -> UnionLit(t.k, rn(t.v), MapVals(t.kts, rn))
          [] t.tag = "Field" -> Field(rn(t.r), t.x)
          [] t.tag = "Note" -> Note(t.s, rn(t.x))
          [] t.tag = "Merge" -> Merge(rn(t.h), rn(t.u), MapSeq(t.t, rn))
          [] OTHER -> t

\* Every binder named alike (plain de Bruijn indices), and every binder on a
\* path named apart (every index 0).
SameNames == [d \in 1..12 |-> "v"]
ApartNames ==
    <<"v1", "v2", "v3", "v4", "v5", "v6", "v7", "v8", "v9", "v10", "v11",
      "v12">>

\* Equal up to the names of bound variables.
AlphaEq(s, t) == Rename(s, <<>>, SameNames) = Rename(t, <<>>, SameNames)

IsErr(r, kind) == r.tag = "Err" /\ r.err.type_message.kind = kind

\* A judgement of a term of this shape has returned.
Done(tag) ==
    pc = "done" /\ entry \in {"type_of", "type_with"} /\ expr.tag = tag

C2_NeverAborts == pc = "done" => result.tag \in {"Ok", "Err"}

\* Substitution on terms whose binders are all named "v" (plain de Bruijn
\* indices): the variable v@j, counted from the binder being removed, becomes
\* r; the variables bound outside it lose one index.  r has no free v.
RECURSIVE Instantiate(_, _, _)
Instantiate(t, j, r) ==
    LET in(u) == Instantiate(u, j, r)
        ib(u) == Instantiate(u, j + 1, r)
        seq(q) == [i \in 1..Len(q) |-> in(q[i])]
        vals(q) == [i \in 1..Len(q) |-> <<q[i][1], in(q[i][2])>>]
    IN  CASE t.tag = "Var" ->
               IF t.x # "v" THEN t
               ELSE IF t.n = j THEN r
               ELSE IF t.n > j THEN Var(V("v", t.n - 1))
               ELSE t
          [] t.tag = "Lam" -> Lam(t.x, in(t.tA), ib(t.b))
          [] t.tag = "Pi" -> Pi(t.x, in(t.tA), ib(t.tB))
          [] t.tag = "App" -> App(in(t.f), in(t.a))
          [] t.tag = "Let" -> Let(t.x, seq(t.mt), in(t.r), ib(t.b))
          [] t.tag = "Annot" -> Annot(in(t.x), in(t.t))
          [] t.tag = "BinOp" -> BinOp(t.o, in(t.l), in(t.r))
          [] t.tag = "BoolIf" -> BoolIf(in(t.x), in(t.y), in(t.z))
          [] t.tag = "ListLit" -> ListLit(seq(t.t), seq(t.xs))
          [] t.tag = "OptionalLit" -> OptionalLit(seq(t.t), seq(t.xs))
          [] t.tag = "Record" -> Record(vals(t.kts))
          [] t.tag = "RecordLit" -> RecordLit(vals(t.kvs))
          [] t.tag = "Field" -> Field(in(t.r), t.x)
          [] OTHER -> t

\* tB[x <- a], up to the names of bound variables: tB is the body of a
\* binder of x, a lives outside that binder.
SubstAlpha(x, a, tB) ==
    Instantiate(Rename(tB, <<x>>, SameNames), 0, Rename(a, <<>>, SameNames))

IdNatural == Lam("x", Builtin("Natural"), var0("x"))

(***************************************************************************)
(* C3: type_with(ctx, App(f, a)): NotAFunction when the normalized type of *)
(* f is not a Pi; with typeof(f) = Pi(x, tA, tB) and tA' = typeof(a),      *)
(* TypeMismatch when prop_equal(tA, tA') is false, and otherwise the       *)
(* result shift(-1, (x,0), subst((x,0), shift(1, (x,0), a), tB)), which is *)
(* alpha-equal to tB[x <- a]; (\x: Natural -> x) 1 : Natural and           *)
(* (\x: Natural -> x) True fails with TypeMismatch.                        *)
(***************************************************************************)
C3_AppRule ==
    Done("App") =>
        LET rf == type_with(gamma, expr.f)
            tf == normalize(rf.val)
            ra == type_with(gamma, expr.a)
            eq == prop_equal(tf.tA, ra.val)
            vx0 == V(tf.x, 0)
        IN  /\ (rf.tag = "Ok" /\ tf.tag # "Pi")
                   => /\ IsErr(result, "NotAFunction")
                      /\ result.err.type_message.args = <<expr.f, tf>>
            /\ (rf.tag = "Ok" /\ tf.tag = "Pi" /\ ra.tag = "Ok")
                   => /\ eq = "false" => IsErr(result, "TypeMismatch")
                      /\ eq = "true" =>
                           /\ result =
                                Ok(shift(-1, vx0,
                                     subst(vx0, shift(1, vx0, expr.a), tf.tB)))
                           /\ Rename(result.val, <<>>, SameNames)
                                = SubstAlpha(tf.x, expr.a, tf.tB)
            /\ expr = App(IdNatural, NaturalLit(1))
                   => result = Ok(Builtin("Natural"))
            /\ expr = App(IdNatural, BoolLit(TRUE))
                   => IsErr(result, "TypeMismatch")

\* An application whose result type binds the very name the argument uses:
\* x a, with x : forall(x: Type) -> forall(a: Type) -> x, is
\* forall(a: Type) -> a@1.
C3_Witness ==
    /\ Done("App") /\ expr = App(var0("x"), var0("a"))
    /\ result = Ok(Pi("a", Const("Type"), Var(V("a", 1))))

(***************************************************************************)
(* C4: type_with(ctx, Lam(x, tA, b)) is exactly Pi(x, tA, tB), tB the type *)
(* of b in ctx extended with x : tA and every stored type shifted by +1 on *)
(* (x, 0), and it succeeds only if that Pi is well-typed in ctx; so        *)
(* \(a: Type) -> \(x: a) -> \(a: Type) -> x has type                       *)
(* forall(a: Type) -> forall(x: a) -> forall(a: Type) -> a@1, and          *)
(* \(x: Bool) -> x has type forall(x: Bool) -> Bool.                       *)
(***************************************************************************)
C4_LamRule ==
    Done("Lam") =>
        LET pushed == Context_insert(gamma, expr.x, expr.tA)
            ctx2 == [l \in DOMAIN pushed |->
                        [i \in 1..Len(pushed[l]) |->
                            shift(1, V(expr.x, 0), pushed[l][i])]]
            rB == type_with(ctx2, expr.b)
            p == Pi(expr.x, expr.tA, rB.val)
        IN  /\ result.tag = "Ok"
                   <=> (rB.tag = "Ok" /\ type_with(gamma, p).tag = "Ok")
            /\ result.tag = "Ok" => result = Ok(p)
            /\ expr = Lam("a", Const("Type"),
                          Lam("x", var0("a"),
                              Lam("a", Const("Type"), var0("x"))))
                   => result =
                        Ok(Pi("a", Const("Type"),
                              Pi("x", var0("a"),
                                 Pi("a", Const("Type"), Var(V("a", 1))))))
            /\ expr = Lam("x", Builtin("Bool"), var0("x"))
                   => result = Ok(Pi("x", Builtin("Bool"), Builtin("Bool")))

\* The shadowing example has been judged.
C4_Witness ==
    /\ Done("Lam") /\ result.tag = "Ok"
    /\ expr.b.tag = "Lam" /\ expr.b.b.tag = "Lam"
    /\ result.val.tB.tB.tB = Var(V("a", 1))

(***************************************************************************)
(* C5: type_with(ctx, Pi(x, tA, tB)): InvalidInputType when the normalized *)
(* type of tA is not a sort kA; else InvalidOutputType when the normalized *)
(* type of tB, in ctx extended with x : tA (shifted), is not a sort kB;    *)
(* else Const(rule(kA, kB)), or NoDependentTypes exactly when kA = Type    *)
(* and kB = Kind.                                                          *)
(***************************************************************************)
C5_PiRule ==
    Done("Pi") =>
        LET rA == type_with(gamma, expr.tA)
            tA2 == normalize(rA.val)
            pushed == Context_insert(gamma, expr.x, expr.tA)
            ctx2 == [l \in DOMAIN pushed |->
                        [i \in 1..Len(pushed[l]) |->
                            shift(1, V(expr.x, 0), pushed[l][i])]]
            rB == type_with(ctx2, expr.tB)
            tB2 == normalize(rB.val)
        IN  /\ (rA.tag = "Ok" /\ tA2.tag # "Const")
                   => IsErr(result, "InvalidInputType")
            /\ (rA.tag = "Ok" /\ tA2.tag = "Const" /\ rB.tag = "Ok")
                   => IF tB2.tag # "Const"
                      THEN IsErr(result, "InvalidOutputType")
                      ELSE IF tA2.c = "Type" /\ tB2.c = "Kind"
                      THEN IsErr(result, "NoDependentTypes")
                      ELSE result =
                             Ok(Const(IF tB2.c = "Kind" THEN "Kind" ELSE "Type"))

\* Each outcome of the Pi rule has happened (here: a type depending on a
\* term is rejected).
C5_Witness ==
    /\ Done("Pi") /\ expr = Pi("x", Builtin("Natural"), Const("Type"))
    /\ IsErr(result, "NoDependentTypes")

(***************************************************************************)
(* C6: type_with(ctx, Let(x, mt, r, b)) returns tB, the type of b in ctx   *)
(* extended with x : typeof(r), whenever r has a type tR of sort kR, tB    *)
(* judged in that same extended context has a sort kB, rule(kR, kB)        *)
(* succeeds and mt, if present, is prop_equal to tR; NoDependentLet when   *)
(* rule(kR, kB) fails, AnnotMismatch when mt is present and not prop_equal *)
(* to tR.                                                                  *)
(***************************************************************************)
C6_LetRule ==
    Done("Let") =>
        LET rR == type_with(gamma, expr.r)
            rtR == type_with(gamma, rR.val)
            ctx2 == Context_insert(gamma, expr.x, rR.val)
            rB == type_with(ctx2, expr.b)
            rtB == type_with(ctx2, rB.val)
            kR == normalize(rtR.val)
            kB == normalize(rtB.val)
            eq == prop_equal(normalize(rR.val), normalize(expr.mt[1]))
        IN  (/\ rR.tag = "Ok" /\ rtR.tag = "Ok" /\ IsConst(kR)
             /\ rB.tag = "Ok" /\ rtB.tag = "Ok" /\ IsConst(kB))
                => IF rule(kR.c, kB.c).tag # "Ok"
                   THEN IsErr(result, "NoDependentLet")
                   ELSE IF expr.mt = None THEN result = Ok(rB.val)
                   ELSE /\ eq = "true" => result = Ok(rB.val)
                        /\ eq = "false" => IsErr(result, "AnnotMismatch")

(***************************************************************************)
(* C7: idempotence of annotation: for every closed e for which type_of(e)  *)
(* succeeds with type t, type_of(Annot(e, t)) succeeds and returns t.      *)
(***************************************************************************)
C7_AnnotIdempotent ==
    (entry = "type_of" /\ Closed(expr) /\ result.tag = "Ok")
        => type_of(Annot(expr, result.val)) = Ok(result.val)

\* A normal form built from the nodes prop_equal compares.
RECURSIVE Comparable(_)
Comparable(t) ==
    CASE t.tag \in {"Const", "Var", "Builtin"} -> TRUE
      [] t.tag = "Pi" -> Comparable(t.tA) /\ Comparable(t.tB)
      [] t.tag = "App" -> Comparable(t.f) /\ Comparable(t.a)
      [] t.tag \in {"Record", "Union"} ->
           \A i \in 1..Len(t.kts) : Comparable(t.kts[i][2])
      [] OTHER -> FALSE

(***************************************************************************)
(* C7, amended: for every closed e for which type_of(e) succeeds with a    *)
(* type t that is itself well-typed (so t is not Kind) and whose normal    *)
(* form is built from Const, Var, Pi, App, Builtin, Record and Union,      *)
(* type_of(Annot(e, t)) succeeds and returns t.                            *)
(***************************************************************************)
C7_AnnotOfTypedType ==
    /\ (/\ entry = "type_of" /\ Closed(expr) /\ result.tag = "Ok"
        /\ type_of(result.val).tag = "Ok"
        /\ Comparable(normalize(result.val)))
           => type_of(Annot(expr, result.val)) = Ok(result.val)
    /\ (/\ Done("Annot") /\ entry = "type_of" /\ Closed(expr.x)
        /\ type_of(expr.x) = Ok(expr.t)
        /\ type_of(expr.t).tag = "Ok"
        /\ Comparable(normalize(expr.t)))
           => result = Ok(expr.t)

\* A function annotated with its own inferred type has been judged.
C7_Witness ==
    /\ Done("Annot") /\ entry = "type_of" /\ Closed(expr.x)
    /\ expr.x.tag = "Lam" /\ type_of(expr.x) = Ok(expr.t)
    /\ result = Ok(expr.t)

\* Two judgements agree: alpha-equal types, or the same kind of error.
Agree(r1, r2) ==
    \/ r1.tag = "Ok" /\ r2.tag = "Ok" /\ AlphaEq(r1.val, r2.val)
    \/ /\ r1.tag = "Err" /\ r2.tag = "Err"
       /\ r1.err.type_message.kind = r2.err.type_message.kind

(***************************************************************************)
(* C8: alpha-invariance: closed e and e' that differ only by a consistent  *)
(* renaming of bound variables are judged alike by type_of: both succeed   *)
(* with alpha-equal types, or both fail with the same error kind.  Here e' *)
(* is e with every binder given the same name, and e with the binders      *)
(* along every path given different names.                                 *)
(***************************************************************************)
C8_AlphaInvariance ==
    (entry = "type_of" /\ Closed(expr) /\ result.tag # "Panic")
        => /\ Agree(result, type_of(Rename(expr, <<>>, SameNames)))
           /\ Agree(result, type_of(Rename(expr, <<>>, ApartNames)))

(***************************************************************************)
(* C9: for every builtin constant b the type returned by                   *)
(* type_of(Builtin b) is closed and well-typed, and its own type is a sort *)
(* (Const Type or Const Kind).                                             *)
(***************************************************************************)
C9_BuiltinSchemas ==
    (Done("Builtin") /\ entry = "type_of" /\ expr.b \in Builtins)
        => /\ result.tag = "Ok"
           /\ Closed(result.val)
           /\ type_of(result.val) \in {Ok(Const("Type")), Ok(Const("Kind"))}

\* The schema of List/build, which holds the Church-encoded fold, is judged.
C9_Witness ==
    /\ Done("Builtin") /\ entry = "type_of" /\ expr.b = "ListBuild"
    /\ result.tag = "Ok" /\ result.val.tag = "Pi"
    /\ type_of(result.val) = Ok(Const("Type"))

Keys(kts) == {kts[i][1] : i \in DOMAIN kts}

\* The entries of a label map, as a set of <<key, value>>.
Entries(kts) == {kts[i] : i \in DOMAIN kts}

(***************************************************************************)
(* C11: record combine commutes on disjoint keys: for x and y of record    *)
(* types whose key sets are disjoint, Combine(x, y) and Combine(y, x) both *)
(* type-check, to alpha-equal record types that hold the union of the      *)
(* fields; a key present in both operands whose field types are not both   *)
(* Record raises FieldCollision.                                           *)
(***************************************************************************)
C11_CombineCommutes ==
    (Done("BinOp") /\ expr.o = "Combine") =>
        LET rl == type_with(gamma, expr.l)
            rr == type_with(gamma, expr.r)
            tl == normalize(rl.val)
            tr == normalize(rr.val)
            swapped == type_with(gamma, BinOp("Combine", expr.r, expr.l))
        IN  (/\ rl.tag = "Ok" /\ rr.tag = "Ok"
             /\ tl.tag = "Record" /\ tr.tag = "Record")
                => /\ Keys(tl.kts) \cap Keys(tr.kts) = {}
                        => /\ result.tag = "Ok" /\ swapped.tag = "Ok"
                           /\ AlphaEq(result.val, swapped.val)
                           /\ result.val.tag = "Record"
                           /\ Entries(result.val.kts)
                                = Entries(tl.kts) \cup Entries(tr.kts)
                   /\ (\E i \in DOMAIN tl.kts, j \in DOMAIN tr.kts :
                          /\ tl.kts[i][1] = tr.kts[j][1]
                          /\ ~(tl.kts[i][2].tag = "Record"
                               /\ tr.kts[j][2].tag = "Record"))
                        => IsErr(result, "FieldCollision")

(***************************************************************************)
(* C12: type_with(ctx, Annot(x, t)): t is type-checked first, so that      *)
(* t = Const Kind fails with Untyped before x is examined; then, when      *)
(* prop_equal(t, typeof(x)) holds, the result is t as written in the       *)
(* annotation, neither normalized nor replaced by the inferred type;       *)
(* otherwise AnnotMismatch carrying x and the normal forms of t and of     *)
(* typeof(x).                                                              *)
(***************************************************************************)
C12_AnnotRule ==
    Done("Annot") =>
        LET rt == type_with(gamma, expr.t)
            rx == type_with(gamma, expr.x)
        IN  /\ rt.tag # "Ok" => result = rt
            /\ expr.t = Const("Kind") => IsErr(result, "Untyped")
            /\ (rt.tag = "Ok" /\ rx.tag # "Ok") => result = rx
            /\ (rt.tag = "Ok" /\ rx.tag = "Ok")
                   => IF prop_equal(expr.t, rx.val) = "true"
                      THEN result = Ok(expr.t)
                      ELSE /\ IsErr(result, "AnnotMismatch")
                           /\ result.err.type_message.args
                                = <<expr.x, normalize(expr.t),
                                    normalize(rx.val)>>
                           /\ result.err.current = expr

\* An annotation that is not normal is returned as written, and Kind as
\* the annotation of an ill-typed term fails with Untyped.
C12_Witness ==
    /\ Done("Annot") /\ expr = OneAsRedex
    /\ result = Ok(NaturalRedex)
    /\ normalize(NaturalRedex) # NaturalRedex
    /\ type_with(gamma, NaturalLit(1)) # Ok(NaturalRedex)
    /\ IsErr(type_with(gamma, Annot(var0("x"), Const("Kind"))), "Untyped")

\* The checks of the if rule all pass: a Bool predicate, two branches that
\* are terms, of equal types.
IfChecksPass ==
    LET rx == type_with(gamma, expr.x)
        ry == type_with(gamma, expr.y)
        rz == type_with(gamma, expr.z)
        rty == type_with(gamma, normalize(ry.val))
        rtz == type_with(gamma, normalize(rz.val))
    IN  /\ rx.tag = "Ok" /\ normalize(rx.val) = Builtin("Bool")
        /\ ry.tag = "Ok" /\ rty.tag = "Ok"
        /\ normalize(rty.val) = Const("Type")
        /\ rz.tag = "Ok" /\ rtz.tag = "Ok"
        /\ normalize(rtz.val) = Const("Type")
        /\ prop_equal(normalize(ry.val), normalize(rz.val)) = "true"

(***************************************************************************)
(* C13 as stated: when the predicate is a Bool, both branches are terms    *)
(* and their types are prop_equal, type_with(ctx, BoolIf(p, y, z)) returns *)
(* typeof(y).                                                              *)
(***************************************************************************)
C13_IfReturnsBranchType ==
    (Done("BoolIf") /\ IfChecksPass)
        => result = type_with(gamma, expr.y)

(***************************************************************************)
(* C13: type_with(ctx, BoolIf(p, y, z)): InvalidPredicate unless typeof(p) *)
(* normalizes to Bool; IfBranchMustBeTerm(true, ..) unless the type of     *)
(* the normal form of typeof(y) normalizes to Const Type, then             *)
(* IfBranchMustBeTerm(false, ..) likewise for z; IfBranchMismatch unless   *)
(* prop_equal holds of the two branch types; otherwise the result is the   *)
(* normal form of typeof(y); if True then 1 else 1 : Natural.              *)
(***************************************************************************)
C13_IfRule ==
    Done("BoolIf") =>
        LET rx == type_with(gamma, expr.x)
            tx == normalize(rx.val)
            ry == type_with(gamma, expr.y)
            ty == normalize(ry.val)
            rty == type_with(gamma, ty)
            tty == normalize(rty.val)
            rz == type_with(gamma, expr.z)
            tz == normalize(rz.val)
            rtz == type_with(gamma, tz)
            ttz == normalize(rtz.val)
            yIsTerm == ry.tag = "Ok" /\ rty.tag = "Ok" /\ tty = Const("Type")
            zIsTerm == rz.tag = "Ok" /\ rtz.tag = "Ok" /\ ttz = Const("Type")
            xIsBool == rx.tag = "Ok" /\ tx = Builtin("Bool")
        IN  /\ (rx.tag = "Ok" /\ tx # Builtin("Bool"))
                   => /\ IsErr(result, "InvalidPredicate")
                      /\ result.err.type_message.args = <<expr.x, tx>>
            /\ (xIsBool /\ ry.tag = "Ok" /\ rty.tag = "Ok"
                    /\ tty # Const("Type"))
                   => /\ IsErr(result, "IfBranchMustBeTerm")
                      /\ result.err.type_message.args
                           = <<TRUE, expr.y, ty, tty>>
            /\ (xIsBool /\ yIsTerm /\ rz.tag = "Ok" /\ rtz.tag = "Ok"
                    /\ ttz # Const("Type"))
                   => /\ IsErr(result, "IfBranchMustBeTerm")
                      /\ result.err.type_message.args
                           = <<FALSE, expr.z, tz, ttz>>
            /\ (xIsBool /\ yIsTerm /\ zIsTerm
                    /\ prop_equal(ty, tz) = "false")
                   => /\ IsErr(result, "IfBranchMismatch")
                      /\ result.err.type_message.args
                           = <<expr.y, expr.z, ty, tz>>
            /\ (xIsBool /\ yIsTerm /\ zIsTerm
                    /\ prop_equal(ty, tz) = "true")
                   => result = Ok(ty)
            /\ result.tag = "Ok"
                   => (xIsBool /\ yIsTerm /\ zIsTerm
                          /\ prop_equal(ty, tz) = "true")
            /\ expr = BoolIf(BoolLit(TRUE), NaturalLit(1), NaturalLit(1))
                   => result = Ok(Builtin("Natural"))

\* A then branch whose type is a redex: the if has the normal form of it.
C13_Witness ==
    /\ Done("BoolIf") /\ IfChecksPass
    /\ expr.y = OneAsRedex
    /\ type_with(gamma, expr.y) = Ok(NaturalRedex)
    /\ result = Ok(Builtin("Natural"))

\* The 0-based indexes of xs compared with the element type: all of them
\* under an annotation, all but the first without one.
Checked(e) == {i \in 0..(Len(e.xs) - 1) : e.t # None \/ i >= 1}

\* The element at 0-based index i is well-typed with a type prop_equal to t.
Fits(t, e, i) ==
    /\ type_with(gamma, e.xs[i + 1]).tag = "Ok"
    /\ prop_equal(t, type_with(gamma, e.xs[i + 1]).val) = "true"

(***************************************************************************)
(* C14: type_with(ctx, ListLit(t?, xs)): the element type t is the         *)
(* annotation if present, else the inferred type of xs[0];                 *)
(* InvalidListType unless typeof(t) normalizes to Const Type;              *)
(* InvalidListElement(i, nf(t), xs[i], nf(typeof(xs[i]))) for the smallest *)
(* checked index i whose type is not prop_equal to t, where every index    *)
(* is checked under an annotation and indexes 1..|xs|-1 without one;       *)
(* otherwise App(List, t); [1, 1, 1] : List Natural, and [] : List Natural *)
(* with the annotation.                                                    *)
(***************************************************************************)
C14_ListRule ==
    (Done("ListLit") /\ (expr.t # None \/ expr.xs # <<>>)) =>
        LET rt == IF expr.t # None THEN Ok(expr.t[1])
                  ELSE type_with(gamma, expr.xs[1])
            t == rt.val
            rs == type_with(gamma, t)
            isType == rt.tag = "Ok" /\ rs.tag = "Ok"
                        /\ normalize(rs.val) = Const("Type")
        IN  /\ (rt.tag = "Ok" /\ rs.tag = "Ok"
                    /\ normalize(rs.val) # Const("Type"))
                   => /\ IsErr(result, "InvalidListType")
                      /\ result.err.type_message.args = <<t>>
            /\ isType =>
                 /\ (\A i \in Checked(expr) : Fits(t, expr, i))
                        => result = Ok(App(Builtin("List"), t))
                 /\ \A i \in Checked(expr) :
                        (/\ \A j \in Checked(expr) : j < i => Fits(t, expr, j)
                         /\ type_with(gamma, expr.xs[i + 1]).tag = "Ok"
                         /\ prop_equal(t, type_with(gamma, expr.xs[i + 1]).val)
                                = "false")
                        => /\ IsErr(result, "InvalidListElement")
                           /\ result.err.type_message.args
                                = <<i, normalize(t), expr.xs[i + 1],
                                    normalize(type_with(gamma,
                                                        expr.xs[i + 1]).val)>>
            /\ result.tag = "Ok"
                   => (isType /\ \A i \in Checked(expr) : Fits(t, expr, i))
            /\ expr = ListLit(None, <<NaturalLit(1), NaturalLit(1),
                                      NaturalLit(1)>>)
                   => result = Ok(App(Builtin("List"), Builtin("Natural")))
            /\ expr = ListLit(Some(Builtin("Natural")), <<>>)
                   => result = Ok(App(Builtin("List"), Builtin("Natural")))

\* Under an annotation the first element is the bad one; without one, the
\* last of three is, at index 2.
C14_Witness ==
    /\ Done("ListLit")
    /\ expr = ListLit(Some(Builtin("Natural")),
                      <<BoolLit(TRUE), NaturalLit(1)>>)
    /\ IsErr(result, "InvalidListElement")
    /\ result.err.type_message.args[1] = 0
    /\ type_with(gamma, ListLit(None, <<NaturalLit(1), NaturalLit(1),
                                        BoolLit(TRUE)>>))
         = Err(TypeError_new(gamma,
                 ListLit(None, <<NaturalLit(1), NaturalLit(1),
                                 BoolLit(TRUE)>>),
                 Msg("InvalidListElement",
                     <<2, Builtin("Natural"), BoolLit(TRUE),
                       Builtin("Bool")>>)))

FieldIsTerm(e, i) ==
    /\ type_with(gamma, e.kvs[i][2]).tag = "Ok"
    /\ type_with(gamma, type_with(gamma, e.kvs[i][2]).val).tag = "Ok"
    /\ normalize(type_with(gamma, type_with(gamma, e.kvs[i][2]).val).val)
         = Const("Type")

(***************************************************************************)
(* C16: type_with(ctx, RecordLit(kvs)) returns Record(kts), kts having     *)
(* exactly the keys of kvs and mapping each key k to the un-normalized     *)
(* inferred type of kvs[k]; it fails with InvalidField(k, v) for the first *)
(* key in label order whose value's type does not itself have type         *)
(* Const Type; { x = 1, y = True } : { x : Natural, y : Bool }.            *)
(***************************************************************************)
C16_RecordLitRule ==
    Done("RecordLit") =>
        /\ (\A i \in DOMAIN expr.kvs : FieldIsTerm(expr, i))
               <=> result.tag = "Ok"
        /\ result.tag = "Ok"
               => /\ result.val.tag = "Record"
                  /\ Len(result.val.kts) = Len(expr.kvs)
                  /\ \A i \in DOMAIN expr.kvs :
                        result.val.kts[i]
                          = <<expr.kvs[i][1],
                              type_with(gamma, expr.kvs[i][2]).val>>
        /\ \A i \in DOMAIN expr.kvs :
               (/\ \A j \in 1..(i - 1) : FieldIsTerm(expr, j)
                /\ type_with(gamma, expr.kvs[i][2]).tag = "Ok"
                /\ type_with(gamma,
                             type_with(gamma, expr.kvs[i][2]).val).tag = "Ok"
                /\ ~FieldIsTerm(expr, i))
               => /\ IsErr(result, "InvalidField")
                  /\ result.err.type_message.args
                       = <<expr.kvs[i][1], expr.kvs[i][2]>>
        /\ expr = RecordLit(<<<<"x", NaturalLit(1)>>, <<"y", BoolLit(TRUE)>>>>)
               => result = Ok(Record(<<<<"x", Builtin("Natural")>>,
                                       <<"y", Builtin("Bool")>>>>))

\* A field whose inferred type is a redex keeps it as inferred.
C16_Witness ==
    /\ Done("RecordLit")
    /\ expr = RecordLit(<<<<"x", OneAsRedex>>, <<"y", BoolLit(TRUE)>>>>)
    /\ result = Ok(Record(<<<<"x", NaturalRedex>>, <<"y", Builtin("Bool")>>>>))
    /\ normalize(result.val) # result.val

(***************************************************************************)
(* C17: type_with(ctx, Field(r, x)): when typeof(r) normalizes to          *)
(* Record(kts) the result is kts[x] if x is a key, and MissingField(x,     *)
(* record type) otherwise; when typeof(r) normalizes to anything other     *)
(* than a Record, NotARecord.                                              *)
(***************************************************************************)
C17_FieldRule ==
    Done("Field") =>
        LET rr == type_with(gamma, expr.r)
            t == normalize(rr.val)
        IN  /\ rr.tag # "Ok" => result = rr
            /\ (rr.tag = "Ok" /\ t.tag = "Record")
                   => /\ \A i \in DOMAIN t.kts :
                           t.kts[i][1] = expr.x => result = Ok(t.kts[i][2])
                      /\ expr.x \notin Keys(t.kts)
                           => /\ IsErr(result, "MissingField")
                              /\ result.err.type_message.args = <<expr.x, t>>
            /\ (rr.tag = "Ok" /\ t.tag # "Record")
                   => /\ IsErr(result, "NotARecord")
                      /\ result.err.type_message.args = <<expr.x, expr.r, t>>

\* A field missing from a record whose type is a redex: the error carries
\* the normalized record type.
C17_Witness ==
    /\ Done("Field") /\ expr.x = "y"
    /\ expr.r.tag = "Annot"
    /\ type_with(gamma, expr.r).tag = "Ok"
    /\ type_with(gamma, expr.r).val.tag = "App"
    /\ IsErr(result, "MissingField")
    /\ result.err.type_message.args
         = <<"y", Record(<<<<"x", Builtin("Natural")>>>>)>>

\* The operators of the claim: <<operator, operand type, error kind>>.
OperatorTable ==
    {<<"BoolAnd", "Bool", "CantAnd">>, <<"BoolOr", "Bool", "CantOr">>,
     <<"BoolEQ", "Bool", "CantEQ">>, <<"BoolNE", "Bool", "CantNE">>,
     <<"NaturalPlus", "Natural", "CantAdd">>,
     <<"NaturalTimes", "Natural", "CantMultiply">>,
     <<"TextAppend", "Text", "CantTextAppend">>}

(***************************************************************************)
(* C18: for each binary operator (And, Or, EQ, NE over Bool; Plus, Times   *)
(* over Natural; TextAppend over Text) with operand type T: the result is  *)
(* Builtin(T) iff both operands are well-typed with types normalizing to   *)
(* Builtin(T); otherwise, if the left operand's type is not T, the         *)
(* operator's own kind (CantAnd, CantOr, CantEQ, CantNE, CantAdd,          *)
(* CantMultiply, CantTextAppend) carrying the left operand and its         *)
(* normalized type, whatever the right operand is; else the same kind      *)
(* carrying the right operand; the error's current term is the whole       *)
(* operator expression.                                                    *)
(***************************************************************************)
C18_OperatorRule ==
    \A row \in OperatorTable :
        (Done("BinOp") /\ expr.o = row[1]) =>
            LET rl == type_with(gamma, expr.l)
                rr == type_with(gamma, expr.r)
                tl == normalize(rl.val)
                tr == normalize(rr.val)
                lFits == rl.tag = "Ok" /\ tl = Builtin(row[2])
                rFits == rr.tag = "Ok" /\ tr = Builtin(row[2])
            IN  /\ result.tag = "Ok" <=> (lFits /\ rFits)
                /\ result.tag = "Ok" => result = Ok(Builtin(row[2]))
                /\ rl.tag # "Ok" => result = rl
                /\ (rl.tag = "Ok" /\ ~lFits)
                       => result = Err(TypeError_new(gamma, expr,
                                         Msg(row[3], <<expr.l, tl>>)))
                /\ (lFits /\ rr.tag # "Ok") => result = rr
                /\ (lFits /\ rr.tag = "Ok" /\ ~rFits)
                       => result = Err(TypeError_new(gamma, expr,
                                         Msg(row[3], <<expr.r, tr>>)))

\* A left operand of the wrong type beside an ill-typed right operand:
\* the left one is reported.
C18_Witness ==
    /\ Done("BinOp")
    /\ expr = BinOp("BoolAnd", NaturalLit(1), var0("x"))
    /\ type_with(gamma, expr.r).tag = "Err"
    /\ result = Err(TypeError_new(gamma, expr,
                      Msg("CantAnd", <<NaturalLit(1), Builtin("Natural")>>)))

(***************************************************************************)
(* C19: rule(a, b) over the sorts Type and Kind returns Type for           *)
(* (Type, Type) and (Kind, Type), Kind for (Kind, Kind), and fails for     *)
(* (Type, Kind) and only for that pair.                                    *)
(***************************************************************************)
C19_RuleTable ==
    (pc = "done" /\ entry = "rule") =>
        /\ sorts = <<"Type", "Type">> => result = Ok("Type")
        /\ sorts = <<"Kind", "Type">> => result = Ok("Type")
        /\ sorts = <<"Kind", "Kind">> => result = Ok("Kind")
        /\ sorts = <<"Type", "Kind">> => result.tag = "Err"
        /\ result.tag = "Err" => sorts = <<"Type", "Kind">>

\* rule has refused the one pair it refuses.
C19_Witness ==
    /\ pc = "done" /\ entry = "rule"
    /\ sorts = <<"Type", "Kind">> /\ result.tag = "Err"

\* t contains Const Kind at a place whose type type_with infers: anywhere
\* but inside the type annotation of a let, which is only normalized.
RECURSIVE HasKind(_)
HasKind(t) ==
    LET any(s) == \E i \in 1..Len(s) : HasKind(s[i])
        anyv(s) == \E i \in 1..Len(s) : HasKind(s[i][2])
    IN  CASE t.tag = "Const" -> t.c = "Kind"
          [] t.tag = "Lam" -> HasKind(t.tA) \/ HasKind(t.b)
          [] t.tag = "Pi" -> HasKind(t.tA) \/ HasKind(t.tB)
          [] t.tag = "App" -> HasKind(t.f) \/ HasKind(t.a)
          [] t.tag = "Let" -> HasKind(t.r) \/ HasKind(t.b)
          [] t.tag = "Annot" -> HasKind(t.x) \/ HasKind(t.t)
          [] t.tag = "BinOp" -> HasKind(t.l) \/ HasKind(t.r)
          [] t.tag = "BoolIf" ->
               HasKind(t.x) \/ HasKind(t.y) \/ HasKind(t.z)
          [] t.tag \in {"ListLit", "OptionalLit"} -> any(t.t) \/ any(t.xs)
          [] t.tag \in {"Record", "Union"} -> anyv(t.kts)
          [] t.tag = "RecordLit" -> anyv(t.kvs)
          [] t.tag = "UnionLit" -> HasKind(t.v) \/ anyv(t.kts)
          [] t.tag = "Field" -> HasKind(t.r)
          [] t.tag = "Note" -> HasKind(t.x)
          [] t.tag = "Merge" -> HasKind(t.h) \/ HasKind(t.u) \/ any(t.t)
          [] OTHER -> FALSE

(***************************************************************************)
(* C20: type_with(ctx, Const Type) returns Const Kind for every ctx, and   *)
(* type_with(ctx, Const Kind) fails with Untyped for every ctx; hence no   *)
(* expression that type-checks contains Const Kind as a sub-term whose     *)
(* type is inferred.                                                       *)
(***************************************************************************)
C20_KindIsUntyped ==
    /\ (Done("Const") /\ expr.c = "Type") => result = Ok(Const("Kind"))
    /\ (Done("Const") /\ expr.c = "Kind") => IsErr(result, "Untyped")
    /\ (pc = "done" /\ entry \in {"type_of", "type_with"}
           /\ result.tag = "Ok")
          => ~HasKind(expr)

\* Kind is refused under a context of two entries, and a let whose
\* annotation holds Kind type-checks.
C20_Witness ==
    /\ Done("Const") /\ expr.c = "Kind"
    /\ gamma # Context_new
    /\ IsErr(result, "Untyped")
    /\ type_with(gamma, Const("Type")) = Ok(Const("Kind"))
    /\ type_of(Let("x", Some(App(Lam("x", Const("Kind"), Builtin("Natural")),
                                 NaturalLit(1))),
                   NaturalLit(1), var0("x"))).tag = "Ok"

\* The argument of the last imports() call among cs, TRUE if there is none.
LastImports(cs) ==
    LET at == {i \in DOMAIN cs : cs[i].op = "imports"}
    IN  IF at = {} THEN TRUE
        ELSE cs[CHOOSE i \in at : \A j \in at : j <= i].arg

\* The pairs a builtin call hands over, in order.
Given(c) == IF c.op = "with_builtin_type" THEN <<c.arg>> ELSE c.arg

\* One step of the builder, the last call of calls' being the one made.
BuilderStep ==
    LET c == calls'[Len(calls')]
        names == {Given(c)[i][1] : i \in DOMAIN Given(c)}
    IN  /\ de'.allow_imports = LastImports(calls')
        /\ de = NoDeserializer
              => /\ c.op \in {"from_str", "from_file", "from_binary_file"}
                 /\ de'.allow_imports = TRUE
                 /\ de'.annot = NoAnnot
                 /\ DOMAIN de'.builtins = {}
                 /\ de'.source.v = c.arg
                 /\ de'.source.kind
                      = (CASE c.op = "from_str" -> "Str"
                           [] c.op = "from_file" -> "File"
                           [] c.op = "from_binary_file" -> "BinaryFile")
        /\ de # NoDeserializer
              => /\ de'.source = de.source
                 /\ c.op = "imports"
                      => /\ de'.allow_imports = c.arg
                         /\ de'.annot = de.annot
                         /\ de'.builtins = de.builtins
                 /\ c.op = "type_annotation"
                      => /\ de'.annot = ManualAnnot(c.arg)
                         /\ de'.allow_imports = de.allow_imports
                         /\ de'.builtins = de.builtins
                 /\ c.op = "static_type_annotation"
                      => /\ de'.annot = StaticAnnot
                         /\ de'.allow_imports = de.allow_imports
                         /\ de'.builtins = de.builtins
                 /\ c.op \in {"with_builtin_type", "with_builtin_types"}
                      => /\ de'.annot = de.annot
                         /\ de'.allow_imports = de.allow_imports
                         /\ DOMAIN de'.builtins
                              = DOMAIN de.builtins
                                  \cup {Label_from_str(n) : n \in names}
                         /\ \A l \in DOMAIN de.builtins :
                               l \notin {Label_from_str(n) : n \in names}
                                  => de'.builtins[l] = de.builtins[l]
                         /\ \A i \in DOMAIN Given(c) :
                               (\A j \in DOMAIN Given(c) :
                                   Given(c)[j][1] = Given(c)[i][1] => j <= i)
                                  => de'.builtins[Label_from_str(Given(c)[i][1])]
                                       = to_expr(Given(c)[i][2])

(***************************************************************************)
(* C21: a Deserializer created by from_str, from_file or from_binary_file  *)
(* has imports enabled, no annotation and an empty builtin map; in any     *)
(* sequence of builder calls imports(b) changes only allow_imports,        *)
(* type_annotation and static_type_annotation change only the annotation,  *)
(* with_builtin_type and with_builtin_types change only the builtin map    *)
(* (adding entries, a later entry for a name replacing the earlier one);   *)
(* so allow_imports is the argument of the last imports() call, or true    *)
(* if there was none, and the source never changes.                        *)
(***************************************************************************)
C21_BuilderFrames == [][BuilderStep]_vars

\* Imports switched off, then an annotation, then a builtin given twice:
\* imports are still off and the later type is the one kept.
C21_Witness ==
    /\ de # NoDeserializer /\ Len(calls) = 4
    /\ calls[2] = Call("imports", FALSE)
    /\ calls[3].op = "type_annotation"
    /\ calls[4].op = "with_builtin_types" /\ Len(calls[4].arg) = 2
    /\ de.allow_imports = FALSE
    /\ de.annot = ManualAnnot(calls[3].arg)
    /\ de.builtins = [l \in {Label_from_str("T")} |-> to_expr("Natural")]

(***************************************************************************)
(* C22: prop_equal decides alpha-equivalence on normal forms built from    *)
(* Const, Var, Pi, App, Builtin, Record and Union: it returns true iff the *)
(* two terms are equal up to renaming of Pi-bound variables, a variable    *)
(* matching a variable iff both refer to the same binder or both are free  *)
(* with the same name and index; forall(x: A) -> forall(x: B) -> x and     *)
(* forall(x: A) -> forall(y: B) -> x are not equal, a bound variable       *)
(* against a free one gives false (a boolean, with no index underflow),    *)
(* and records and unions are equal iff they have the same keys with       *)
(* pairwise equal types.                                                   *)
(***************************************************************************)
C22_PropEqualIsAlpha ==
    (pc = "done" /\ entry = "prop_equal") =>
        /\ result.is \in {"true", "false"}
        /\ result.is = "true" <=> AlphaEq(pair[1], pair[2])

\* t is a sub-term of e that is judged in context c when e is judged in
\* ctx: c is ctx extended by the binders entered on the way from e to t.
RECURSIVE IsJudged(_, _, _, _)
IsJudged(ctx, e, c, t) ==
    LET in(u) == IsJudged(ctx, u, c, t)
        under(ctx2, u) == IsJudged(ctx2, u, c, t)
        any(q) == \E i \in 1..Len(q) : in(q[i])
        anyv(q) == \E i \in 1..Len(q) : in(q[i][2])
    IN  \/ (c = ctx /\ t = e)
        \/ CASE e.tag \in {"Lam"} ->
                   in(e.tA) \/ under(Extend(ctx, e.x, e.tA), e.b)
              [] e.tag = "Pi" ->
                   in(e.tA) \/ under(Extend(ctx, e.x, e.tA), e.tB)
              [] e.tag = "App" -> in(e.f) \/ in(e.a)
              [] e.tag = "Let" ->
                   \/ in(e.r)
                   \/ /\ type_with(ctx, e.r).tag = "Ok"
                      /\ under(Context_insert(ctx, e.x,
                                              type_with(ctx, e.r).val), e.b)
              [] e.tag = "Annot" -> in(e.x) \/ in(e.t)
              [] e.tag = "BinOp" -> in(e.l) \/ in(e.r)
              [] e.tag = "BoolIf" -> in(e.x) \/ in(e.y) \/ in(e.z)
              [] e.tag \in {"ListLit", "OptionalLit"} -> any(e.t) \/ any(e.xs)
              [] e.tag \in {"Record", "Union"} -> anyv(e.kts)
              [] e.tag = "RecordLit" -> anyv(e.kvs)
              [] e.tag = "Field" -> in(e.r)
              [] OTHER -> FALSE

(***************************************************************************)
(* C23: every TypeError returned by type_with(ctx, e) carries as its       *)
(* context the context in force at the point of failure (ctx extended by   *)
(* every binder entered on the way to the failing sub-term) and as its     *)
(* current term the sub-term being judged when the failure was detected,   *)
(* whatever the error kind: Untyped for Const Kind under binders,          *)
(* InvalidOutputType and NoDependentTypes of the Pi rule included.         *)
(***************************************************************************)
C23_ErrorContext ==
    (pc = "done" /\ entry \in {"type_of", "type_with"} /\ result.tag = "Err")
        => IsJudged(gamma, expr, result.err.context, result.err.current)

\* The sub-term of a node that the fixed order puts first: the domain of a
\* Lam or a Pi, the function of an App, the predicate of an if, the left
\* operand of an operator.
FirstSubTerm(e) ==
    CASE e.tag \in {"Lam", "Pi"} -> e.tA
      [] e.tag = "App" -> e.f
      [] e.tag = "BoolIf" -> e.x
      [] e.tag = "BinOp" -> e.l

(***************************************************************************)
(* C24: error-surfacing order: when several sub-terms of one node are      *)
(* ill-typed, type_with reports the error of the one that comes first in   *)
(* the order domain before codomain or body (Pi and Lam), predicate before *)
(* branches (BoolIf), function before argument (App), left operand before  *)
(* right operand (binary operators): while the first sub-term fails, the   *)
(* result is its error, whatever the later sub-terms are.                  *)
(***************************************************************************)
C24_ErrorOrder ==
    (/\ pc = "done" /\ entry \in {"type_of", "type_with"}
     /\ \/ expr.tag \in {"Lam", "Pi", "App", "BoolIf"}
        \/ expr.tag = "BinOp" /\ expr.o \in BinOps
     /\ type_with(gamma, FirstSubTerm(expr)).tag = "Err")
        => result = type_with(gamma, FirstSubTerm(expr))

====
